---------------------------- MODULE Spec2Model ----------------------------
(***************************************************************************)
(* JobScraper: the posting record and its helpers (scrapers/base.py), the  *)
(* role matcher, the per-site extractors (scrapers/*.py) and the SQLite    *)
(* deduplication store (dedup.py), as state machines.                      *)
(*                                                                         *)
(* A Python str is a sequence of text tokens (<<>> is the empty string);   *)
(* an instant is a number of minutes since 0001-01-01T00:00 (UTC).         *)
(***************************************************************************)
EXTENDS Integers, Sequences, FiniteSets, TLC

VARIABLES
    store,          \* rows of table seen_jobs (dedup.py:24-32)
    clock,          \* the wall clock, a UTC instant
    tz,             \* the host's local-time offset from UTC, in minutes
    call,           \* the last DedupStore call: its arguments and result
    hist,           \* since the last purge_old: the URLs handed to filter_new
                    \* (offered) and those it returned as new (returned)
    probe,          \* the last call of a helper of scrapers/base.py: its
                    \* arguments and its outcome
    scr,            \* the scraper being run through safe_scrape: its
                    \* configuration, its position in scrape() and its outcome
    run,            \* main(): its arguments, the run_scrape call in progress
                    \* and how far it has come
    conn            \* for each of two overlapping runs: its DedupStore call in
                    \* progress, the sqlite3 connection and its transaction

vars == <<store, clock, tz, call, hist, probe, scr, run, conn>>

-----------------------------------------------------------------------------
(* Bounds of the model *)

MaxBatch == 2       \* longest list handed to filter_new
MaxTicks == 2       \* how many times the clock advances
MaxPurgeDays == 1   \* largest `days` handed to purge_old
MaxDays == 2        \* largest everyday `days` handed to is_within_days
MaxTextLen == 3     \* longest text (in tokens) handed to parse_relative_time
MaxRoles == 2       \* longest configured role list
MaxCards == 2       \* most candidate elements one run meets on its pages
MaxRuns == 2        \* how many times run_scrape is called on one jobs.db

-----------------------------------------------------------------------------
(* Time *)

MinutesPerHour == 60
MinutesPerDay == 24 * MinutesPerHour
TickMinutes == 12 * MinutesPerHour
\* midnight UTC of a day in the year 2024 (proleptic ordinal 739000)
Epoch0 == 739000 * MinutesPerDay

DayOf(t) == t \div MinutesPerDay
MinuteOfDay(t) == t % MinutesPerDay

\* the byte that separates date and time in the two text forms: ' ' and 'T'
SPACE == 32
LETTER_T == 84

\* SQLite's CURRENT_TIMESTAMP: the UTC time as 'YYYY-MM-DD HH:MM:SS'.
\* The fixed-width date and time fields compare as their numbers do.
CurrentTimestamp(t) == <<DayOf(t), SPACE, MinuteOfDay(t)>>

\* datetime.isoformat() of a naive datetime: 'YYYY-MM-DDTHH:MM:SS[.ffffff]'
IsoFormat(t) == <<DayOf(t), LETTER_T, MinuteOfDay(t)>>

\* datetime.now(): the naive local time
LocalNow(t, offset) == t + offset

\* the UTC instant a stored first_seen text denotes
InstantOf(ts) == ts[1] * MinutesPerDay + ts[3]

RECURSIVE TextLess(_, _)
\* SQLite's BINARY collation on two TEXT values (memcmp, shorter prefix first)
TextLess(a, b) ==
    IF b = <<>> THEN FALSE
    ELSE IF a = <<>> THEN TRUE
    ELSE IF Head(a) < Head(b) THEN TRUE
    ELSE IF Head(a) > Head(b) THEN FALSE
    ELSE TextLess(Tail(a), Tail(b))

TzOffsets == {0 - TickMinutes, 0, TickMinutes}

-----------------------------------------------------------------------------
(* Postings *)

\* posted_date = None
NoDate == [none |-> TRUE]

Job(title, company, location, url, source, matched_role, posted_date, description) ==
    [title |-> title, company |-> company, location |-> location, url |-> url,
     source |-> source, matched_role |-> matched_role,
     posted_date |-> posted_date, description |-> description]

\* J2 and J2b are the same listing scraped from two sources (same URL)
J1 == Job(<<"PM", " ", "Intern">>, <<"Acme">>, <<"US">>,
          <<"https://l.example", "/jobs/view/", "1">>, <<"LinkedIn">>,
          <<"PM", " ", "Intern">>, NoDate, <<>>)
J2 == Job(<<"Data", " ", "Intern">>, <<"Acme">>, <<"US">>,
          <<"https://l.example", "/jobs/view/", "2">>, <<"LinkedIn">>,
          <<"Data", " ", "Intern">>, NoDate, <<>>)
J2b == Job(<<"Data", " ", "Internship">>, <<>>, <<"NY">>,
           <<"https://l.example", "/jobs/view/", "2">>, <<"Indeed">>,
           <<"Data", " ", "Intern">>, NoDate, <<>>)
J3 == Job(<<"QA", " ", "Intern">>, <<"Bolt">>, <<"US">>,
          <<"https://l.example", "/jobs/view/", "2", "?ref=x">>, <<"Indeed">>,
          <<>>, NoDate, <<>>)

JobPool == {J1, J2, J2b, J3}

\* the postings the store is exercised with
StorePool == {J1, J2, J2b}

SeqsUpTo(S, n) == UNION {[1..k -> S] : k \in 0..n}

JobLists == SeqsUpTo(StorePool, MaxBatch)

-----------------------------------------------------------------------------
(* dedup.py *)

\* hashlib.sha256(url.encode()).hexdigest(): a digest that is determined by
\* the URL's bytes and, sha256 having no known collisions, determines them
_hash_url(url) == [sha256 |-> url]

Row(url_hash, url, title, source, first_seen) ==
    [url_hash |-> url_hash, url |-> url, title |-> title, source |-> source,
     first_seen |-> first_seen]

\* SELECT 1 FROM seen_jobs WHERE url_hash = ?
SelectSeen(rows, url_hash) == {r \in rows : r.url_hash = url_hash}

InsertSeen_Skip(rows, job, now) == rows

\* first_seen takes the date alone
InsertSeen_Midnight(rows, job, now) ==
    rows \cup {Row(_hash_url(job.url), job.url, job.title, job.source,
                   CurrentTimestamp(DayOf(now) * MinutesPerDay))}

\* INSERT INTO seen_jobs (url_hash, url, title, source): first_seen takes the
\* column default CURRENT_TIMESTAMP
InsertSeen(rows, job, now) ==
    rows \cup {Row(_hash_url(job.url), job.url, job.title, job.source,
                   CurrentTimestamp(now))}

FilterItem_Upsert(acc, job, now) ==
    IF SelectSeen(acc.rows, _hash_url(job.url)) = {}
    THEN [new_jobs |-> Append(acc.new_jobs, job),
          rows |-> InsertSeen(acc.rows, job, now)]
    ELSE [new_jobs |-> acc.new_jobs,
          rows |-> InsertSeen(acc.rows \ SelectSeen(acc.rows, _hash_url(job.url)),
                              job, now)]

FilterItem_AlwaysNew(acc, job, now) ==
    [new_jobs |-> Append(acc.new_jobs, job), rows |-> InsertSeen(acc.rows, job, now)]

\* one iteration of filter_new's loop: look the hash up; when no row has it,
\* keep the job and insert its row
FilterItem(acc, job, now) ==
    IF SelectSeen(acc.rows, _hash_url(job.url)) = {}
    THEN [new_jobs |-> Append(acc.new_jobs, job),
          rows |-> InsertSeen(acc.rows, job, now)]
    ELSE acc

RECURSIVE FilterLoop(_, _, _)
\* the for-loop of filter_new over `jobs`, inside one connection
FilterLoop(jobs, acc, now) ==
    IF jobs = <<>> THEN acc
    ELSE FilterLoop(Tail(jobs), FilterItem(acc, Head(jobs), now), now)

\* DELETE FROM seen_jobs WHERE first_seen < ?   with ? = cutoff.isoformat().
\* Column first_seen (declared TIMESTAMP, NUMERIC affinity) holds the TEXT
\* CURRENT_TIMESTAMP wrote; the parameter is TEXT too, so SQLite compares the
\* two as strings.
PurgeKeep(rows, cutoffText) == {r \in rows : ~TextLess(r.first_seen, cutoffText)}

\* cutoff = datetime.now() - timedelta(days=days)
PurgeCutoff(now, offset, days) == LocalNow(now, offset) - days * MinutesPerDay

UrlsOf(jobs) == {jobs[i].url : i \in 1..Len(jobs)}

\* no helper called yet
NoProbe == [fn |-> "none"]

NoHist == [offered |-> {}, returned |-> {}]

NoCall == [op |-> "none", jobs |-> <<>>, days |-> 0, result |-> <<>>]

\* safe_scrape has not come to its end
Pending == [kind |-> "pending"]

\* no scraper constructed yet
Idle ==
    [src |-> "none", roles |-> <<>>, i |-> 0, variant |-> 0,
     scraped_pages |-> {}, jobs |-> <<>>, out |-> Pending, ret |-> Pending,
     met |-> 0, lastCards |-> 0, lastNoHref |-> 0, lastEmptyHref |-> 0,
     lastFound |-> 0, lastFailed |-> FALSE, lastUrl |-> <<>>]

\* Python's None
None == [none |-> TRUE]

\* a value that is not None
Given(v) == [val |-> v]

\* main() has not been called
NoRun ==
    [phase |-> "none", args |-> None, kwargs |-> None, n |-> 0,
     roles |-> <<>>, location |-> <<>>, enabled_scrapers |-> <<>>,
     job_type |-> "", i |-> 0, all_jobs |-> <<>>, parts |-> <<>>,
     new_jobs |-> <<>>, env |-> {}, email |-> "none", exc |-> "",
     sched |-> FALSE]

\* the two runs that share one jobs.db
Runs == {1, 2}

\* a run that has not called the store yet
NoConn ==
    [pc |-> "idle", jobs |-> <<>>, i |-> 0, new_jobs |-> <<>>, tx |-> FALSE,
     pending |-> {}, out |-> Pending, purged |-> FALSE]

\* DedupStore.filter_new(jobs)
filter_new(jobs) ==
    LET r == FilterLoop(jobs, [new_jobs |-> <<>>, rows |-> store], clock) IN
    /\ store' = r.rows
    /\ call' = [op |-> "filter_new", jobs |-> jobs, days |-> 0, result |-> r.new_jobs]
    /\ hist' = [offered |-> hist.offered \cup UrlsOf(jobs),
                returned |-> hist.returned \cup UrlsOf(r.new_jobs)]
    /\ UNCHANGED <<clock, tz, probe, scr, run, conn>>

\* DedupStore.purge_old(days)
purge_old(days) ==
    /\ store' = PurgeKeep(store, IsoFormat(PurgeCutoff(clock, tz, days)))
    /\ call' = [op |-> "purge_old", jobs |-> <<>>, days |-> days, result |-> <<>>]
    /\ hist' = NoHist
    /\ UNCHANGED <<clock, tz, probe, scr, run, conn>>

\* time passes between calls
Tick ==
    /\ clock < Epoch0 + MaxTicks * TickMinutes
    /\ clock' = clock + TickMinutes
    /\ UNCHANGED <<store, tz, call, hist, probe, scr, run, conn>>

\* a fresh database file (CREATE TABLE IF NOT EXISTS), on a host in some zone
Init ==
    /\ store = {}
    /\ clock = Epoch0
    /\ tz \in TzOffsets
    /\ call = NoCall
    /\ hist = NoHist
    /\ probe = NoProbe
    /\ scr = Idle
    /\ run = NoRun
    /\ conn = [p \in Runs |-> NoConn]

DoFilterNew == \E jobs \in JobLists : filter_new(jobs)
DoPurgeOld == \E days \in 0..MaxPurgeDays : purge_old(days)

Next ==
    \/ DoFilterNew
    \/ DoPurgeOld
    \/ Tick

Spec == Init /\ [][Next]_vars

\* a database file that an earlier run has left, holding the entry filter_new
\* wrote for one posting MaxPurgeDays days ago
AgedStore ==
    InsertSeen({}, J1, Epoch0 - MaxPurgeDays * MinutesPerDay)

AgedInit ==
    /\ store = AgedStore
    /\ clock = Epoch0
    /\ tz \in TzOffsets
    /\ call = NoCall
    /\ hist = NoHist
    /\ probe = NoProbe
    /\ scr = Idle
    /\ run = NoRun
    /\ conn = [p \in Runs |-> NoConn]

AgedSpec == AgedInit /\ [][Next]_vars

-----------------------------------------------------------------------------
(* scrapers/base.py: text *)

\* str.lower(), token by token
Lower(tok) ==
    CASE tok = "Software" -> "software"
      [] tok = "Engineer" -> "engineer"
      [] tok = "Intern" -> "intern"
      [] tok = "Data" -> "data"
      [] tok = "Science" -> "science"
      [] tok = "Analyst" -> "analyst"
      [] tok = "QA" -> "qa"
      [] tok = "ML" -> "ml"
      [] tok = "Hours" -> "hours"
      [] tok = "Just now" -> "just now"
      [] tok = "Product" -> "product"
      [] tok = "Management" -> "management"
      [] tok = "Technical" -> "technical"
      [] tok = "Program" -> "program"
      [] tok = "Project" -> "project"
      [] tok = "Business" -> "business"
      [] OTHER -> tok

LowerStr(s) == [i \in 1..Len(s) |-> Lower(s[i])]

\* the number of characters of a token
TokLen(tok) ==
    CASE tok \in {"Management", "management"} -> 10
      [] tok \in {"Technical", "technical"} -> 9
      [] tok \in {"Software", "software", "Engineer", "engineer",
                  "Business", "business"} -> 8
      [] tok \in {"Science", "science", "Analyst", "analyst", "Product",
                  "product", "Program", "program", "Project", "project"} -> 7
      [] tok \in {"Intern", "intern"} -> 6
      [] tok \in {"Data", "data", "ship"} -> 4
      [] tok = "ing" -> 3
      [] tok \in {"QA", "qa", "ML", "ml"} -> 2
      [] OTHER -> 1

RECURSIVE StrLen(_)
\* len(s)
StrLen(s) == IF s = <<>> THEN 0 ELSE TokLen(Head(s)) + StrLen(Tail(s))

IsSpace(tok) == tok = " "

RECURSIVE LStrip(_)
LStrip(s) == IF s # <<>> /\ IsSpace(Head(s)) THEN LStrip(Tail(s)) ELSE s

RECURSIVE RStrip(_)
RStrip(s) ==
    IF s # <<>> /\ IsSpace(s[Len(s)]) THEN RStrip(SubSeq(s, 1, Len(s) - 1)) ELSE s

\* str.strip()
Strip(s) == RStrip(LStrip(s))

\* `sub in s` for a non-empty sub: sub occurs in s at some position
Contains(s, sub) ==
    \E i \in 1..(Len(s) - Len(sub) + 1) : SubSeq(s, i, i + Len(sub) - 1) = sub

RECURSIVE SplitWords(_, _)
\* str.split(): the maximal runs of non-space tokens, `cur` being the run
\* in progress
SplitWords(s, cur) ==
    IF s = <<>> THEN (IF cur = <<>> THEN <<>> ELSE <<cur>>)
    ELSE IF IsSpace(Head(s))
         THEN (IF cur = <<>> THEN <<>> ELSE <<cur>>) \o SplitWords(Tail(s), <<>>)
         ELSE SplitWords(Tail(s), Append(cur, Head(s)))

Split(s) == SplitWords(s, <<>>)

-----------------------------------------------------------------------------
(* scrapers/base.py: Job.__eq__ and Job.__hash__ *)

J4 == Job(<<"Data", " ", "Intern">>, <<"Acme">>, <<"US">>,
          <<"https://l.example", "/Jobs/View/", "2">>, <<"LinkedIn">>,
          <<"Data", " ", "Intern">>, NoDate, <<>>)

\* a Python value with its class
PyObj(cls, val) == [cls |-> cls, val |-> val]

\* what a Job may be compared with: Jobs, a Job's URL as a str, a dict with
\* a Job's fields, None
Others ==
    {PyObj("Job", j) : j \in JobPool \cup {J4}}
        \cup {PyObj("str", [url |-> j.url]) : j \in {J1, J2}}
        \cup {PyObj("dict", j) : j \in {J1, J2}}
        \cup {PyObj("NoneType", NoDate)}

\* hash() of a str: fixed by the string's content, and not one-to-one
StrHash(s) == Len(s)

__hash__(self) == StrHash(self.url)

__eq___AllFields(self, other) ==
    IF other.cls # "Job" THEN FALSE ELSE self = other.val

__eq__(self, other) ==
    IF other.cls # "Job" THEN FALSE ELSE self.url = other.val.url

\* a == other, with the hashes of both when other is a Job
CompareJobs(a, other) ==
    /\ probe' = [fn |-> "__eq__", self |-> a, other |-> other,
                 out |-> __eq__(a, other),
                 hashes |-> IF other.cls = "Job"
                            THEN <<__hash__(a), __hash__(other.val)>> ELSE <<>>]
    /\ UNCHANGED <<store, clock, tz, call, hist, scr, run, conn>>

-----------------------------------------------------------------------------
(* scrapers/base.py: is_within_days *)

\* a datetime: the instant its fields read, and whether it carries a tzinfo
DateTime(t, aware) == [t |-> t, aware |-> aware]

Returns(v) == [kind |-> "return", val |-> v]
Raises(e) == [kind |-> "raise", exc |-> e]

\* a local variable: v is computed once and Body reads it
With(v, Body(_)) == Body(v)

\* datetime.min is 0001-01-01T00:00, the instant 0: a datetime minus a
\* timedelta below it raises OverflowError (as does a timedelta over
\* 999999999 days, which is further than any datetime lies from datetime.min)
SubOverflows(now, amount, unitMinutes) == amount > now \div unitMinutes

\* is_within_days(posted_date, days), `now` being what datetime.now() reads.
\* Comparing an aware datetime with the naive cutoff raises TypeError.
is_within_days(posted_date, days, now) ==
    IF posted_date = NoDate THEN Returns(TRUE)
    ELSE IF SubOverflows(now, days, MinutesPerDay) THEN Raises("OverflowError")
    ELSE IF posted_date.aware THEN Raises("TypeError")
    ELSE Returns(posted_date.t >= now - days * MinutesPerDay)

\* the dates handed to is_within_days: None, and naive and aware datetimes
\* that are 0 .. MaxDays + 1 whole days older than Epoch0
PostedDates ==
    {NoDate} \cup {DateTime(Epoch0 - k * MinutesPerDay, aware) :
                      k \in 0..(MaxDays + 1), aware \in BOOLEAN}

\* one day more than lies between Epoch0 and datetime.min
HugeDays == DayOf(Epoch0) + 1

DaysArgs == 0..MaxDays \cup {HugeDays}

CheckWithinDays(posted_date, days) ==
    /\ probe' = [fn |-> "is_within_days", posted_date |-> posted_date, days |-> days,
                 now |-> LocalNow(clock, tz),
                 out |-> is_within_days(posted_date, days, LocalNow(clock, tz))]
    /\ UNCHANGED <<store, clock, tz, call, hist, scr, run, conn>>

-----------------------------------------------------------------------------
(* scrapers/base.py: parse_relative_time *)

TextToks ==
    {"5", "24", "9999999999", "^2", "minute", "Hours", "day", "Just now", "moment",
     " ", "ago"}

Texts == SeqsUpTo(TextToks, MaxTextLen)

\* c.isdigit() holds of every character of the token
IsDigits(tok) == tok \in {"5", "24", "9999999999", "^2"}

\* int() accepts the token's characters; "^2" is the superscript two
\* (U+00B2), a digit to str.isdigit() that int() rejects
IsDecimal(tok) == tok \in {"5", "24", "9999999999"}

\* stands for every int from 2 * 10^9 on
Huge == 2000000000

DigitVal(tok) ==
    CASE tok = "5" -> 5
      [] tok = "24" -> 24
      [] OTHER -> Huge

Pow10(tok) ==
    CASE tok = "5" -> 10
      [] tok = "24" -> 100
      [] OTHER -> Huge

\* the number written by the digits of v followed by those of tok
ConcatInt(v, tok) ==
    IF DigitVal(tok) >= Huge \/ v >= Huge \div Pow10(tok) THEN Huge
    ELSE v * Pow10(tok) + DigitVal(tok)

\* the unit keyword occurs in the (lower-cased) token
TokHas(tok, unit) ==
    CASE unit = "minute" -> tok = "minute"
      [] unit = "hour" -> tok = "hours"
      [] unit = "day" -> tok = "day"
      [] unit = "just now" -> tok = "just now"
      [] unit = "moment" -> tok = "moment"
      [] OTHER -> FALSE

\* `unit in text`
HasUnit(text, unit) == \E i \in 1..Len(text) : TokHas(text[i], unit)

\* text.split(unit)[0]: what precedes the first occurrence of the unit
BeforeUnit(text, unit) ==
    LET i == CHOOSE k \in 1..Len(text) :
                /\ TokHas(text[k], unit)
                /\ \A j \in 1..(k - 1) : ~TokHas(text[j], unit)
    IN SubSeq(text, 1, i - 1)

\* "".join(c for c in s if c.isdigit())
DigitsOf(s) == SelectSeq(s, IsDigits)

RECURSIVE IntOf(_, _)
\* int(digits), the digits read so far being worth v
IntOf(digits, v) ==
    IF digits = <<>> THEN v ELSE IntOf(Tail(digits), ConcatInt(v, Head(digits)))

\* int(digits or "0"): ValueError on a digit that is no decimal digit
ParseInt(digits) ==
    IF \E i \in 1..Len(digits) : ~IsDecimal(digits[i]) THEN Raises("ValueError")
    ELSE Returns(IntOf(digits, 0))

\* now - timedelta(<unit> = amount)
Ago(now, amount, unitMinutes) ==
    IF SubOverflows(now, amount, unitMinutes) THEN Raises("OverflowError")
    ELSE Returns(DateTime(now - amount * unitMinutes, FALSE))

\* one branch of parse_relative_time: the amount before `unit`, subtracted
UnitBranch(text, unit, unitMinutes, now) ==
    With(ParseInt(DigitsOf(BeforeUnit(text, unit))), LAMBDA n :
         IF n.kind = "raise" THEN n ELSE Ago(now, n.val, unitMinutes))

\* the branches with hour tested before minute
TryParse_HourFirst(text, now) ==
    IF HasUnit(text, "hour") THEN UnitBranch(text, "hour", MinutesPerHour, now)
    ELSE IF HasUnit(text, "minute") THEN UnitBranch(text, "minute", 1, now)
    ELSE IF HasUnit(text, "day") THEN UnitBranch(text, "day", MinutesPerDay, now)
    ELSE IF HasUnit(text, "just now") \/ HasUnit(text, "moment")
         THEN Returns(DateTime(now, FALSE))
    ELSE Returns(NoDate)

\* the try block of parse_relative_time, on the lower-cased, stripped text
TryParse(text, now) ==
    IF HasUnit(text, "minute") THEN UnitBranch(text, "minute", 1, now)
    ELSE IF HasUnit(text, "hour") THEN UnitBranch(text, "hour", MinutesPerHour, now)
    ELSE IF HasUnit(text, "day") THEN UnitBranch(text, "day", MinutesPerDay, now)
    ELSE IF HasUnit(text, "just now") \/ HasUnit(text, "moment")
         THEN Returns(DateTime(now, FALSE))
    ELSE Returns(NoDate)

\* except (ValueError, IndexError): pass
Caught(e) == e \in {"ValueError", "IndexError"}

parse_relative_time(text, now) ==
    With(TryParse(Strip(LowerStr(text)), now), LAMBDA r :
         IF r.kind = "raise" /\ Caught(r.exc) THEN Returns(NoDate) ELSE r)

ParseRelativeTime(text) ==
    /\ probe' = [fn |-> "parse_relative_time", text |-> text,
                 now |-> LocalNow(clock, tz),
                 out |-> parse_relative_time(text, LocalNow(clock, tz))]
    /\ UNCHANGED <<store, clock, tz, call, hist, scr, run, conn>>

-----------------------------------------------------------------------------
(* scrapers/base.py: BaseScraper._match_role *)

Max(a, b) == IF a >= b THEN a ELSE b

\* [w.lower() for w in role.split() if len(w) > 3]
Keywords(role) ==
    LET long == SelectSeq(Split(role), LAMBDA w : StrLen(w) > 3)
    IN [i \in 1..Len(long) |-> LowerStr(long[i])]

\* sum(1 for kw in keywords if kw in title_lower)
CountIn(kws, title_lower) ==
    Cardinality({i \in 1..Len(kws) : Contains(title_lower, kws[i])})

\* all(kw in title_lower for kw in keywords)
AllIn(kws, title_lower) == \A i \in 1..Len(kws) : Contains(title_lower, kws[i])

\* the two tests of _match_role's loop body
RoleMatches(role, title_lower) ==
    LET kws == Keywords(role) IN
    \/ AllIn(kws, title_lower)
    \/ CountIn(kws, title_lower) >= Max(Len(kws) - 1, 1)

RECURSIVE MatchLoop(_, _)
MatchLoop(roles, title_lower) ==
    IF roles = <<>> THEN <<>>
    ELSE IF RoleMatches(Head(roles), title_lower) THEN Head(roles)
    ELSE MatchLoop(Tail(roles), title_lower)

_match_role(roles, title) == MatchLoop(roles, LowerStr(title))

RoleSWE == <<"Software", " ", "Engineer", "ing", " ", "Intern">>
RoleDS == <<"Data", " ", "Science", " ", "Intern">>
RoleQA == <<"QA">>
RoleML == <<"ML", " ", "Intern">>

RolePool == {RoleSWE, RoleDS, RoleQA, RoleML}

RoleLists == SeqsUpTo(RolePool, MaxRoles)

Titles ==
    {<<"Software", " ", "Engineer", " ", "Intern", "ship">>,
     <<"Software", " ", "Engineer">>,
     <<"Data", " ", "Analyst">>,
     <<"data", " ", "science", " ", "intern">>,
     <<"Intern">>,
     <<>>}

MatchRole(roles, title) ==
    /\ probe' = [fn |-> "_match_role", roles |-> roles, title |-> title,
                 out |-> _match_role(roles, title)]
    /\ UNCHANGED <<store, clock, tz, call, hist, scr, run, conn>>

-----------------------------------------------------------------------------
(* The helpers, each called once with arguments from the bounded sets *)

HelperInit ==
    /\ store = {}
    /\ clock = Epoch0
    /\ tz \in TzOffsets
    /\ call = NoCall
    /\ hist = NoHist
    /\ probe = NoProbe
    /\ scr = Idle
    /\ run = NoRun
    /\ conn = [p \in Runs |-> NoConn]

DoCompareJobs ==
    /\ probe = NoProbe
    /\ \E a \in JobPool \cup {J4}, other \in Others : CompareJobs(a, other)

DoCheckWithinDays ==
    /\ probe = NoProbe
    /\ \E d \in PostedDates, days \in DaysArgs : CheckWithinDays(d, days)

DoParseRelativeTime ==
    /\ probe = NoProbe
    /\ \E text \in Texts : ParseRelativeTime(text)

DoMatchRole ==
    /\ probe = NoProbe
    /\ \E roles \in RoleLists, title \in Titles : MatchRole(roles, title)

HelperNext ==
    \/ DoCompareJobs
    \/ DoCheckWithinDays
    \/ DoParseRelativeTime
    \/ DoMatchRole

HelperSpec == HelperInit /\ [][HelperNext]_vars

-----------------------------------------------------------------------------
(* scrapers/*.py: what an extractor reads from a fetched page.

   A page is the list of its candidate elements in document order. A
   candidate is the answers to the queries the extractors put to it:
     name      its tag name
     head      its first heading (h2 .. h5), or NoEl
     headA     the first <a href> inside that heading, or NoEl
     a         its first <a href> (for an <a> candidate: the candidate
               itself), or NoEl; the heading comes before it
     ps        the texts of its <p> elements
     company, location, desc, date
               the elements its class and data-attribute queries find, or NoEl;
               date carries the text and the datetime attribute of a <time>
     sel       the card selector of the generic extractor that matches it
               ("": none)
     li        whether it is a list item or table row
   An href is text like any other: a sequence of tokens, cut where the
   patterns the extractors look for begin and end. *)

\* find() found nothing; an attribute is missing
NoEl == [absent |-> TRUE]

Heading(tag, text) == [tag |-> tag, text |-> text]
Anchor(href, text) == [href |-> href, text |-> text]
TimeEl(text, attr) == [text |-> text, attr |-> attr]
Txt(s) == [text |-> s]

\* a datetime attribute that datetime.fromisoformat reads, and one it rejects
IsoAttr(dt) == [iso |-> dt]
BadAttr == [bad |-> TRUE]

\* card.find("a", href=True): a descendant, so never the candidate itself
FindA(card) == IF card.name = "a" THEN NoEl ELSE card.a

\* card.find([tags]): the first heading, when its tag is among `tags`
HeadIn(card, tags) ==
    IF card.head # NoEl /\ card.head.tag \in tags THEN card.head ELSE NoEl

\* el.get_text(strip=True) if el else default
TextOr(el, default) == IF el = NoEl THEN default ELSE el.text

\* x or y, on strings
Or(x, y) == IF x = <<>> THEN y ELSE x

\* the description element, else the first <p>
DescOrP(card) ==
    IF card.desc # NoEl THEN card.desc.text
    ELSE IF card.ps # <<>> THEN card.ps[1] ELSE <<>>

\* tok.startswith(prefix)
TokStarts(tok, prefix) ==
    CASE prefix = "http" ->
            tok \in {"https://www.", "https://www.simplyhired.com",
                     "https://www.wayup.com", "https://www.indeed.com",
                     "https://www.glassdoor.com", "https://www.intern-list.com",
                     "https://boards.example"}
      [] prefix = "/" ->
            tok \in {"/", "/listing/", "/pm-intern-list", "/da-intern-list",
                     "/s/internships/", "/acme", "/1", "/login"}
      [] OTHER -> tok = prefix

\* s.startswith(prefix)
StartsWith(s, prefix) == s # <<>> /\ TokStarts(s[1], prefix)

\* pat in tok
TokIn(pat, tok) ==
    \/ tok = pat
    \/ pat = "pm-intern-list" /\ tok = "/pm-intern-list"
    \/ pat = "da-intern-list" /\ tok = "/da-intern-list"

\* pat in s
SubIn(pat, s) == \E i \in 1..Len(s) : TokIn(pat, s[i])

\* the outcome of one candidate: a posting, nothing, or an error
Emit(job) == [kind |-> "job", job |-> job]
Skip == [kind |-> "skip"]

\* the exceptions that derive from Exception; KeyboardInterrupt derives from
\* BaseException only
IsException(e) ==
    e \in {"TypeError", "OverflowError", "ValueError", "IndexError",
           "RequestException"}

\* try: ... except Exception: continue, around the body of a card loop
TryCard(r) == IF r.kind = "raise" /\ IsException(r.exc) THEN Skip ELSE r

\* a candidate is kept whatever is_within_days answers
Filtered_Keep(posted, days, now) ==
    IF posted.kind = "raise" THEN posted
    ELSE With(is_within_days(posted.val, days, now), LAMBDA w :
              IF w.kind = "raise" THEN w
              ELSE [kind |-> "ok", posted |-> posted.val])

\* if not is_within_days(posted, self.max_age_days): continue, `posted`
\* being the outcome of the code that computed the date
Filtered(posted, days, now) ==
    IF posted.kind = "raise" THEN posted
    ELSE With(is_within_days(posted.val, days, now), LAMBDA w :
              IF w.kind = "raise" THEN w
              ELSE IF ~w.val THEN Skip
              ELSE [kind |-> "ok", posted |-> posted.val])

\* role_jobs.append(Job(...)) for a candidate that came through the recency
\* filter, `f` being the outcome of the filter
Posting(f, title, company, location, url, source, matched_role, description) ==
    IF f.kind # "ok" THEN f
    ELSE Emit(Job(title, company, location, url, source, matched_role, f.posted,
                  description))

\* posted = parse_relative_time(date_el.get_text(strip=True)) if date_el
DateText(card, now) ==
    IF card.date = NoEl THEN Returns(NoDate)
    ELSE parse_relative_time(card.date.text, now)

SimplyHired_BASE_URL == <<"https://www.simplyhired.com">>
WayUp_BASE_URL == <<"https://www.wayup.com">>
Indeed_BASE_URL == <<"https://www.indeed.com">>
Glassdoor_BASE_URL == <<"https://www.glassdoor.com">>
InternList_BASE_URL == <<"https://www.intern-list.com">>

\* if not link.startswith("http"): link = f"{BASE_URL}{link}"
Absolute(base, link) == IF StartsWith(link, "http") THEN link ELSE base \o link

\* SimplyHiredScraper._scrape_role: the body of the try of `for card in cards`
SimplyHiredCard(self, card, role, now) ==
    LET title_el == HeadIn(card, {"h2", "h3", "h4"})
        link_el == FindA(card)
        link == IF link_el = NoEl THEN <<>> ELSE link_el.href
    IN  IF title_el = NoEl THEN Skip
        ELSE IF link = <<>> THEN Skip
        ELSE Posting(Filtered(DateText(card, now), self.max_age_days, now),
                     title_el.text, TextOr(card.company, <<>>),
                     TextOr(card.location, self.location),
                     Absolute(SimplyHired_BASE_URL, link), "SimplyHired",
                     Or(_match_role(self.roles, title_el.text), role),
                     DescOrP(card))

\* WayUpScraper._scrape_role: the title and the link of a card, or NoEl where
\* the code continues with the next card
WayUpTitleLink(card) ==
    LET title_el == HeadIn(card, {"h2", "h3", "h4"})
        link_el == FindA(card)
    IN  IF card.name = "a"
        THEN [title |-> card.a.text, link |-> card.a.href]
        ELSE IF title_el = NoEl
        THEN (IF link_el # NoEl /\ SubIn("/listing/", link_el.href)
              THEN [title |-> link_el.text, link |-> link_el.href]
              ELSE NoEl)
        ELSE [title |-> title_el.text,
              link |-> IF link_el = NoEl THEN <<>> ELSE link_el.href]

\* WayUpScraper._scrape_role: the body of the try of `for card in cards`
WayUpCard(self, card, role, now) ==
    LET tl == WayUpTitleLink(card)
        url == IF StartsWith(tl.link, "http") THEN tl.link
               ELSE IF StartsWith(tl.link, "/") THEN WayUp_BASE_URL \o tl.link
               ELSE WayUp_BASE_URL \o <<"/">> \o tl.link
    IN  IF tl = NoEl THEN Skip
        ELSE IF tl.title = <<>> \/ tl.link = <<>> THEN Skip
        ELSE IF SubIn("/s/internships/", url) /\ ~SubIn("/listing/", url) THEN Skip
        ELSE Emit(Job(tl.title, TextOr(card.company, <<>>),
                      TextOr(card.location, self.location), url, "WayUp",
                      Or(_match_role(self.roles, tl.title), role),
                      DateTime(now, FALSE), DescOrP(card)))

\* IndeedScraper._scrape_role: the body of the try of `for card in cards`
IndeedCard(self, card, role, now) ==
    LET title_el == HeadIn(card, {"h2", "h3"})
        title_link == card.headA
        link_el == FindA(card)
        title == IF title_link # NoEl THEN title_link.text ELSE title_el.text
        link == IF title_link # NoEl THEN title_link.href
                ELSE IF link_el = NoEl THEN <<>> ELSE link_el.href
    IN  IF title_el = NoEl THEN Skip
        ELSE IF title = <<>> \/ link = <<>> THEN Skip
        ELSE Posting(Filtered(DateText(card, now), self.max_age_days, now),
                     title, TextOr(card.company, <<>>),
                     TextOr(card.location, <<"United States">>),
                     Absolute(Indeed_BASE_URL, link), "Indeed",
                     Or(_match_role(self.roles, title), role),
                     TextOr(card.desc, <<>>))

\* GlassdoorScraper._scrape_role: the body of the try of `for card in cards`.
\* title_el is the first of the h2, h3 and a elements of the card.
GlassdoorCard(self, card, role, now) ==
    LET heading == HeadIn(card, {"h2", "h3"})
        link_el == FindA(card)
        title_el == IF heading # NoEl THEN heading ELSE link_el
        own == IF heading = NoEl /\ title_el # NoEl THEN title_el.href ELSE <<>>
        link == IF own # <<>> THEN own
                ELSE IF link_el = NoEl THEN <<>> ELSE link_el.href
    IN  IF title_el = NoEl THEN Skip
        ELSE IF title_el.text = <<>> \/ link = <<>> THEN Skip
        ELSE Posting(Filtered(DateText(card, now), self.max_age_days, now),
                     title_el.text, TextOr(card.company, <<>>),
                     TextOr(card.location, <<"United States">>),
                     Absolute(Glassdoor_BASE_URL, link), "Glassdoor",
                     Or(_match_role(self.roles, title_el.text), role),
                     TextOr(card.desc, <<>>))

\* LinkedInScraper._scrape_role: posted, from the text of the <time> element
\* and, when that gives None, from its datetime attribute
LinkedInPosted(card, now) ==
    With(DateText(card, now), LAMBDA p :
         IF card.date = NoEl \/ p.kind = "raise" THEN p
         ELSE IF p.val = NoDate /\ card.date.attr # NoEl
              THEN (IF card.date.attr = BadAttr THEN Returns(NoDate)
                    ELSE Returns(card.date.attr.iso))
         ELSE p)

\* LinkedInScraper._scrape_role: the body of the try of `for item in items`
LinkedInItem(self, item, role, now) ==
    LET title_el == HeadIn(item, {"h3"})
        link_el == FindA(item)
    IN  IF title_el = NoEl THEN Skip
        ELSE IF link_el = NoEl THEN Skip
        ELSE IF ~SubIn("linkedin.com/jobs/view", link_el.href) THEN Skip
        ELSE Posting(Filtered(LinkedInPosted(item, now), self.max_age_days, now),
                     title_el.text, TextOr(item.company, <<>>),
                     TextOr(item.location, self.location), link_el.href,
                     "LinkedIn",
                     Or(_match_role(self.roles, title_el.text), role), <<>>)

\* ROLE_TO_PAGE.get(role, "")
ROLE_TO_PAGE(role) ==
    CASE role = <<"Product", " ", "Management", " ", "Intern">> ->
            <<"/pm-intern-list">>
      [] role = <<"Technical", " ", "Program", " ", "Management", " ", "Intern">> ->
            <<"/pm-intern-list">>
      [] role = <<"Technical", " ", "Project", " ", "Management", " ", "Intern">> ->
            <<"/pm-intern-list">>
      [] role = <<"Data", " ", "Analyst", " ", "Intern">> -> <<"/da-intern-list">>
      [] role = <<"Business", " ", "Analyst", " ", "Intern">> -> <<"/da-intern-list">>
      [] OTHER -> <<>>

\* page_path.lstrip("/").split("/")[0]
Slug(page_path) ==
    CASE page_path = <<"/pm-intern-list">> -> "pm-intern-list"
      [] page_path = <<"/da-intern-list">> -> "da-intern-list"

\* datetime.strptime(date_str, "%B %d, %Y"), None on ValueError
Strptime(date_str) ==
    CASE date_str = <<"April 24, 2024">> ->
            DateTime(Epoch0 - MinutesPerDay, FALSE)
      [] date_str = <<"April 20, 2024">> ->
            DateTime(Epoch0 - 5 * MinutesPerDay, FALSE)
      [] OTHER -> NoDate

\* InternListScraper._scrape_page: the body of the try of `for item in items`
InternListItem(self, item, page_path, now) ==
    LET a == FindA(item)
        main_link == IF a # NoEl /\ SubIn(Slug(page_path), a.href) /\ a.href # <<"#">>
                     THEN a ELSE NoEl
        paragraphs == item.ps
        title == paragraphs[1]
        company == IF Len(paragraphs) >= 3 THEN paragraphs[3] ELSE <<>>
        posted_date == Strptime(paragraphs[2])
    IN  IF main_link = NoEl THEN Skip
        ELSE IF Len(paragraphs) < 2 THEN Skip
        ELSE IF title = <<>> \/ title = company THEN Skip
        ELSE Posting(Filtered(Returns(posted_date), self.max_age_days, now),
                     title, company, self.location,
                     Absolute(InternList_BASE_URL, main_link.href),
                     "intern-list.com", _match_role(self.roles, title), <<>>)

-----------------------------------------------------------------------------
(* scrapers/generic.py *)

\* JOB_LINK_RE.search(href): "/jobs/" lies inside "linkedin.com/jobs/view"
JOB_LINK_RE(href) ==
    \E i \in 1..Len(href) : href[i] \in {"/listing/", "linkedin.com/jobs/view"}

\* SKIP_PATTERNS.search(href)
SKIP_PATTERNS(href) == \E i \in 1..Len(href) : href[i] \in {"#", "/login"}

\* urllib.parse.quote_plus(role)
quote_plus(role) == [i \in 1..Len(role) |-> IF role[i] = " " THEN "+" ELSE role[i]]

\* the variants with ?query= tried before ?q=
UrlsToTry_QueryFirst(self, role) ==
    <<self.base_url,
      self.base_url \o <<"?query=">> \o quote_plus(role),
      self.base_url \o <<"?q=">> \o quote_plus(role),
      self.base_url \o <<"?search=">> \o quote_plus(role),
      self.base_url \o <<"?keywords=">> \o quote_plus(role)>>

\* urls_to_try of GenericScraper._scrape_role
UrlsToTry(self, role) ==
    <<self.base_url,
      self.base_url \o <<"?q=">> \o quote_plus(role),
      self.base_url \o <<"?query=">> \o quote_plus(role),
      self.base_url \o <<"?search=">> \o quote_plus(role),
      self.base_url \o <<"?keywords=">> \o quote_plus(role)>>

\* the href as it stands, unresolved
urljoin_Href(page_url, href) == href

\* urllib.parse.urljoin(page_url, href), page_url being the origin, a path of
\* one segment and possibly a query: an empty href is the page itself
urljoin(page_url, href) ==
    IF href = <<>> THEN page_url
    ELSE IF StartsWith(href, "http") THEN href
    ELSE IF StartsWith(href, "/") THEN <<page_url[1]>> \o href
    ELSE IF StartsWith(href, "#") THEN page_url \o href
    ELSE <<page_url[1], "/">> \o href

\* GenericScraper._extract_context(element): company, location, posted and
\* description, or the error of parse_relative_time
_extract_context(element, now) ==
    IF element = NoEl
    THEN Returns([company |-> <<>>, location |-> <<>>, posted |-> NoDate,
                  description |-> <<>>])
    ELSE With(IF element.date = NoEl THEN Returns(NoDate)
              ELSE IF element.date.attr # NoEl /\ element.date.attr # BadAttr
                   THEN Returns(element.date.attr.iso)
              ELSE parse_relative_time(element.date.text, now),
              LAMBDA posted :
                  IF posted.kind = "raise" THEN posted
                  ELSE Returns([company |-> TextOr(element.company, <<>>),
                                location |-> TextOr(element.location, <<>>),
                                posted |-> posted.val,
                                description |-> DescOrP(element)]))

\* the tail shared by _parse_card, _try_job_links and _try_list_items: the
\* context of `element`, the recency filter, the posting
GenericJob(self, title, full_url, element, role, now) ==
    With(_extract_context(element, now), LAMBDA ctx :
         IF ctx.kind = "raise" THEN ctx
         ELSE Posting(Filtered(Returns(ctx.val.posted), self.max_age_days, now),
                      title, ctx.val.company,
                      Or(ctx.val.location, self.location), full_url,
                      self.source_name, Or(_match_role(self.roles, title), role),
                      ctx.val.description))

\* GenericScraper._parse_card(card, page_url, role)
_parse_card(self, card, page_url, role, now) ==
    LET link == FindA(card)
        heading == HeadIn(card, {"h2", "h3", "h4", "h5"})
        title == IF heading # NoEl THEN heading.text ELSE link.text
    IN  IF link = NoEl THEN Skip
        ELSE IF title = <<>> \/ StrLen(title) < 3 THEN Skip
        ELSE IF SKIP_PATTERNS(link.href) THEN Skip
        ELSE GenericJob(self, title, urljoin(page_url, link.href), card, role, now)

RECURSIVE Collect(_, _)
\* a loop that appends the postings among `outs` to `acc`; an error ends it
Collect(outs, acc) ==
    IF outs = <<>> THEN Returns(acc)
    ELSE LET o == Head(outs) IN
         IF o.kind = "raise" THEN o
         ELSE Collect(Tail(outs),
                      IF o.kind = "job" THEN Append(acc, o.job) ELSE acc)

\* the card selectors of _try_structured_cards, in order
card_selectors == <<"div.opening", "li[class*='job']">>

RECURSIVE SelectorLoop(_, _, _, _, _, _)
\* for selector in card_selectors: ...
SelectorLoop(self, selectors, page, page_url, role, now) ==
    IF selectors = <<>> THEN Returns(<<>>)
    ELSE With(SelectSeq(page, LAMBDA c : c.sel = Head(selectors)), LAMBDA cards :
         With(Collect([i \in 1..Len(cards) |->
                         _parse_card(self, cards[i], page_url, role, now)], <<>>),
              LAMBDA r :
                  IF Len(cards) >= 2 /\ r.kind = "raise" THEN r
                  ELSE IF Len(cards) >= 2 /\ r.val # <<>> THEN r
                  ELSE SelectorLoop(self, Tail(selectors), page, page_url, role,
                                    now)))

RECURSIVE SelectorLoop_AnyCount(_, _, _, _, _, _)
\* the selector loop without `if len(cards) >= 2`
SelectorLoop_AnyCount(self, selectors, page, page_url, role, now) ==
    IF selectors = <<>> THEN Returns(<<>>)
    ELSE With(SelectSeq(page, LAMBDA c : c.sel = Head(selectors)), LAMBDA cards :
         With(Collect([i \in 1..Len(cards) |->
                         _parse_card(self, cards[i], page_url, role, now)], <<>>),
              LAMBDA r :
                  IF r.kind = "raise" THEN r
                  ELSE IF r.val # <<>> THEN r
                  ELSE SelectorLoop_AnyCount(self, Tail(selectors), page, page_url,
                                             role, now)))

_try_structured_cards_AnyCount(self, page, page_url, role, now) ==
    SelectorLoop_AnyCount(self, card_selectors, page, page_url, role, now)

\* GenericScraper._try_structured_cards(soup, page_url, role)
_try_structured_cards(self, page, page_url, role, now) ==
    SelectorLoop(self, card_selectors, page, page_url, role, now)

RECURSIVE AllLinks(_)
\* soup.find_all("a", href=True), each link with link.parent: the candidate it
\* lies in, or for an <a> candidate an element that holds nothing else
AllLinks(page) ==
    IF page = <<>> THEN <<>>
    ELSE LET c == Head(page)
             parent == IF c.name = "a" THEN NoEl ELSE c
         IN  (IF c.headA # NoEl THEN <<[link |-> c.headA, parent |-> parent]>>
              ELSE <<>>)
             \o (IF c.a # NoEl THEN <<[link |-> c.a, parent |-> parent]>> ELSE <<>>)
             \o AllLinks(Tail(page))

RECURSIVE JobLinksLoop(_, _, _, _, _, _, _)
\* for link in soup.find_all("a", href=True): ...
JobLinksLoop(self, links, seen, jobs, page_url, role, now) ==
    IF links = <<>> THEN Returns(jobs)
    ELSE LET link == Head(links).link
             full_url == urljoin(page_url, link.href)
             text == link.text
         IN  IF \/ full_url \in seen
                \/ SKIP_PATTERNS(link.href)
                \/ ~JOB_LINK_RE(link.href)
                \/ text = <<>> \/ StrLen(text) < 5 \/ StrLen(text) > 200
             THEN JobLinksLoop(self, Tail(links), seen, jobs, page_url, role, now)
             ELSE With(GenericJob(self, text, full_url, Head(links).parent, role, now),
                       LAMBDA o :
                  IF o.kind = "raise" THEN o
                  ELSE JobLinksLoop(self, Tail(links), seen \cup {full_url},
                                    IF o.kind = "job" THEN Append(jobs, o.job)
                                    ELSE jobs,
                                    page_url, role, now))

\* GenericScraper._try_job_links(soup, page_url, role)
_try_job_links(self, page, page_url, role, now) ==
    JobLinksLoop(self, AllLinks(page), {}, <<>>, page_url, role, now)

\* any(kw in text_lower for kw in job_keywords)
HasJobKeyword(text_lower) ==
    \E i \in 1..Len(text_lower) :
        text_lower[i] \in {"intern", "analyst", "engineer", "manager", "developer",
                           "designer", "associate", "coordinator", "specialist",
                           "scientist", "consultant", "architect", "lead",
                           "director"}

\* any(kw in text_lower for kw in role_keywords)
HasRoleKeyword(role, text_lower) ==
    \E i \in 1..Len(Keywords(role)) : Contains(text_lower, Keywords(role)[i])

RECURSIVE ListItemsLoop(_, _, _, _, _, _, _)
\* for item in containers: ...
ListItemsLoop(self, items, seen, jobs, page_url, role, now) ==
    IF items = <<>> THEN Returns(jobs)
    ELSE LET item == Head(items)
             link == FindA(item)
             full_url == urljoin(page_url, link.href)
             text == link.text
         IN  IF \/ link = NoEl
                \/ full_url \in seen \/ text = <<>> \/ StrLen(text) < 5
                \/ SKIP_PATTERNS(link.href)
                \/ ~HasJobKeyword(LowerStr(text)) /\ ~HasRoleKeyword(role, LowerStr(text))
             THEN ListItemsLoop(self, Tail(items), seen, jobs, page_url, role, now)
             ELSE With(GenericJob(self, text, full_url, item, role, now), LAMBDA o :
                  IF o.kind = "raise" THEN o
                  ELSE ListItemsLoop(self, Tail(items), seen \cup {full_url},
                                     IF o.kind = "job" THEN Append(jobs, o.job)
                                     ELSE jobs,
                                     page_url, role, now))

\* GenericScraper._try_list_items(soup, page_url, role)
_try_list_items(self, page, page_url, role, now) ==
    ListItemsLoop(self, SelectSeq(page, LAMBDA c : c.li), {}, <<>>, page_url,
                  role, now)

\* GenericScraper._extract_jobs_from_page(soup, page_url, role)
_extract_jobs_from_page(self, page, page_url, role, now) ==
    With(_try_structured_cards(self, page, page_url, role, now), LAMBDA s1 :
         IF s1.kind = "raise" \/ s1.val # <<>> THEN s1
         ELSE With(_try_job_links(self, page, page_url, role, now), LAMBDA s2 :
                   IF s2.kind = "raise" \/ s2.val # <<>> THEN s2
                   ELSE _try_list_items(self, page, page_url, role, now)))

RECURSIVE UniqueUrls(_, _, _)
\* for job in page_jobs: if job.url not in seen_urls: ...
UniqueUrls(page_jobs, seen_urls, role_jobs) ==
    IF page_jobs = <<>> THEN role_jobs
    ELSE IF Head(page_jobs).url \in seen_urls
         THEN UniqueUrls(Tail(page_jobs), seen_urls, role_jobs)
    ELSE UniqueUrls(Tail(page_jobs), seen_urls \cup {Head(page_jobs).url},
                    Append(role_jobs, Head(page_jobs)))

-----------------------------------------------------------------------------
(* One scraper run through BaseScraper.safe_scrape, and the deduplication
   that main.run_scrape does with what it returns *)

T_DS == <<"Data", " ", "Science", " ", "Intern">>
T_SE == <<"Software", " ", "Engineer">>
T_DA == <<"Data", " ", "Analyst">>

\* an absolute href, two site-relative ones and one relative to the page
H_view == <<"https://www.", "linkedin.com/jobs/view", "/1">>
H_list == <<"/pm-intern-list", "/listing/", "2">>
H_search == <<"/s/internships/", "x">>
H_bare == <<"jobs", "/listing/", "3">>

\* a complete card, posted five hours ago
K_view ==
    [name |-> "li", head |-> Heading("h3", T_DS), headA |-> NoEl,
     a |-> Anchor(H_view, T_DS), ps |-> <<>>, company |-> Txt(<<"Acme">>),
     location |-> NoEl, desc |-> NoEl,
     date |-> TimeEl(<<"5", " ", "Hours", " ", "ago">>, NoEl),
     sel |-> "li[class*='job']", li |-> TRUE]

\* a card whose heading holds the link, with the three paragraphs of an
\* intern-list.com item
K_list ==
    [name |-> "div", head |-> Heading("h2", T_SE), headA |-> Anchor(H_list, T_SE),
     a |-> Anchor(H_list, T_SE),
     ps |-> <<T_SE, <<"April 24, 2024">>, <<"Acme">>>>, company |-> NoEl,
     location |-> Txt(<<"Austin, TX">>), desc |-> Txt(<<"Build things">>),
     date |-> NoEl, sel |-> "div.opening", li |-> TRUE]

\* a card without any link
K_noa ==
    [name |-> "div", head |-> Heading("h3", T_DS), headA |-> NoEl, a |-> NoEl,
     ps |-> <<T_DS, <<"April 24, 2024">>>>, company |-> NoEl, location |-> NoEl,
     desc |-> NoEl, date |-> NoEl, sel |-> "div.opening", li |-> TRUE]

\* a card whose link has href=""
K_empty ==
    [name |-> "li", head |-> Heading("h3", <<"Intern">>), headA |-> NoEl,
     a |-> Anchor(<<>>, <<"Intern">>), ps |-> <<<<"Intern">>, <<"TBD">>>>,
     company |-> NoEl, location |-> NoEl, desc |-> NoEl, date |-> NoEl,
     sel |-> "li[class*='job']", li |-> TRUE]

\* a bare <a href> candidate
K_a ==
    [name |-> "a", head |-> NoEl, headA |-> NoEl, a |-> Anchor(H_bare, T_DA),
     ps |-> <<>>, company |-> NoEl, location |-> NoEl, desc |-> NoEl,
     date |-> NoEl, sel |-> "", li |-> FALSE]

\* a card whose heading is empty
K_notitle ==
    [name |-> "li", head |-> Heading("h3", <<>>), headA |-> NoEl,
     a |-> Anchor(H_view, <<>>), ps |-> <<>>, company |-> NoEl,
     location |-> NoEl, desc |-> NoEl, date |-> NoEl, sel |-> "", li |-> TRUE]

\* a card dated by <time datetime="2024-04-25T00:00:00+00:00">
K_aware ==
    [name |-> "li", head |-> Heading("h3", T_DS), headA |-> NoEl,
     a |-> Anchor(H_view, T_DS), ps |-> <<>>, company |-> NoEl,
     location |-> NoEl, desc |-> NoEl,
     date |-> TimeEl(<<>>, IsoAttr(DateTime(Epoch0, TRUE))),
     sel |-> "li[class*='job']", li |-> TRUE]

\* a card posted 24 days ago that links to a search page
K_stale ==
    [name |-> "div", head |-> Heading("h2", T_SE), headA |-> NoEl,
     a |-> Anchor(H_search, T_SE), ps |-> <<>>, company |-> NoEl,
     location |-> NoEl, desc |-> NoEl,
     date |-> TimeEl(<<"24", " ", "day", " ", "ago">>, NoEl),
     sel |-> "div.opening", li |-> FALSE]

CardPool == {K_view, K_list, K_noa, K_empty, K_a, K_notitle, K_aware, K_stale}

\* requests.get raised a RequestException, or the status is not a success
RequestFailed == [failed |-> TRUE]

\* what a fetch can give: a failure, or a page on which the selectors of the
\* extractor find at most n candidates
Responses(n) == {RequestFailed} \cup {[cards |-> p] : p \in SeqsUpTo(CardPool, n)}

RolePM == <<"Product", " ", "Management", " ", "Intern">>
RoleTPM == <<"Technical", " ", "Program", " ", "Management", " ", "Intern">>
RoleDA == <<"Data", " ", "Analyst", " ", "Intern">>

\* config["roles"]
ConfigRoles == {<<RoleTPM, RolePM>>, <<RoleQA, RoleDA>>, <<RoleDS>>}

\* config["location"] and config["max_age_days"]
ConfigLocation == <<"Remote">>
max_age_days == 1

SiteSources == {"SimplyHired", "WayUp", "Indeed", "Glassdoor", "LinkedIn", "InternList"}
Sources == SiteSources \cup {"Generic"}

\* the scraper object; base_url and source_name are those of a GenericScraper
\* for https://boards.example/acme/
Self(roles) ==
    [roles |-> roles, location |-> ConfigLocation, max_age_days |-> max_age_days,
     base_url |-> <<"https://boards.example", "/acme">>, source_name |-> "Boards"]

\* the try ... except Exception of the card loop of each site scraper
CardOut(self, src, card, role, now) ==
    TryCard(CASE src = "SimplyHired" -> SimplyHiredCard(self, card, role, now)
              [] src = "WayUp" -> WayUpCard(self, card, role, now)
              [] src = "Indeed" -> IndeedCard(self, card, role, now)
              [] src = "Glassdoor" -> GlassdoorCard(self, card, role, now)
              [] src = "LinkedIn" -> LinkedInItem(self, card, role, now)
              [] src = "InternList" ->
                    InternListItem(self, card, ROLE_TO_PAGE(role), now))

\* _scrape_role(role) of a site scraper (_scrape_page of InternListScraper),
\* once the page is fetched
_scrape_role(self, src, page, role, now) ==
    Collect([i \in 1..Len(page) |-> CardOut(self, src, page[i], role, now)],
            <<>>).val

\* BaseScraper.safe_scrape, `out` being the outcome of self.scrape()
safe_scrape_RequestOnly(out) ==
    IF out.kind = "raise" /\ out.exc = "RequestException" THEN Returns(<<>>) ELSE out

safe_scrape(out) ==
    IF out.kind = "raise" /\ IsException(out.exc) THEN Returns(<<>>) ELSE out

\* the candidates of a page that carry no href attribute, and those whose
\* every href is the empty string
NoHref(card) == card.a = NoEl /\ card.headA = NoEl
EmptyHref(card) ==
    /\ ~NoHref(card)
    /\ card.a # NoEl => card.a.href = <<>>
    /\ card.headA # NoEl => card.headA.href = <<>>

Count(page, P(_)) == Cardinality({i \in 1..Len(page) : P(page[i])})

\* what the log tells of the page parsed last and of its fetch, and how many
\* candidates the run has met
Seen(s, page, found) ==
    [s EXCEPT !.met = @ + Len(page), !.lastFailed = FALSE,
              !.lastCards = Len(page), !.lastNoHref = Count(page, NoHref),
              !.lastEmptyHref = Count(page, EmptyHref), !.lastFound = found]

Running == scr.src # "none" /\ scr.ret = Pending
InLoop == Running /\ scr.i <= Len(scr.roles)

\* scraper = scraper_cls(roles=roles, ...); scraper.safe_scrape() begins
StartScrape(src, roles) ==
    /\ scr = Idle
    /\ scr' = [Idle EXCEPT !.src = src, !.roles = roles, !.i = 1, !.variant = 1]
    /\ UNCHANGED <<store, clock, tz, call, hist, probe, run, conn>>

\* resp = requests.get(url, ...) with resp.raise_for_status() or the test of
\* resp.status_code: the candidates of the page, or the error
Get(resp) ==
    IF resp = RequestFailed THEN Raises("RequestException")
    ELSE Returns(resp.cards)

\* a fetch whose error is not caught
RoleJobs_NoExcept(got, self, src, role, now) ==
    IF got.kind = "raise" THEN got
    ELSE Returns(_scrape_role(self, src, got.val, role, now))

\* _scrape_role(role) of a site scraper: except requests.RequestException:
\* return [], else the postings of the page
RoleJobs(got, self, src, role, now) ==
    IF got.kind = "raise"
    THEN (IF got.exc = "RequestException" THEN Returns(<<>>) ELSE got)
    ELSE Returns(_scrape_role(self, src, got.val, role, now))

\* one turn of `for url in urls_to_try`: except requests.RequestException:
\* continue, else page_jobs
PageJobs(got, self, page_url, role, now) ==
    IF got.kind = "raise"
    THEN (IF got.exc = "RequestException" THEN Returns(<<>>) ELSE got)
    ELSE _extract_jobs_from_page(self, got.val, page_url, role, now)

\* the candidates that were parsed
Parsed(got) == IF got.kind = "raise" THEN <<>> ELSE got.val

\* scrape() ends with an error, which reaches safe_scrape
Failed(s, r) == [s EXCEPT !.out = r, !.ret = safe_scrape(r)]

\* one turn of `for role in self.roles` of a site scraper's scrape()
SiteFetch(resp) ==
    LET role == scr.roles[scr.i]
        page == Parsed(Get(resp))
    IN  /\ InLoop
        /\ scr.src \in SiteSources
        /\ scr.src = "InternList" =>
              /\ ROLE_TO_PAGE(role) # <<>>
              /\ ROLE_TO_PAGE(role) \notin scr.scraped_pages
        /\ scr' = With(RoleJobs(Get(resp), Self(scr.roles), scr.src, role,
                                LocalNow(clock, tz)),
                       LAMBDA r :
                  [(IF r.kind = "raise" THEN Seen(Failed(scr, r), page, 0)
                    ELSE Seen([scr EXCEPT !.jobs = @ \o r.val, !.i = @ + 1,
                                          !.scraped_pages =
                                              IF scr.src = "InternList"
                                              THEN @ \cup {ROLE_TO_PAGE(role)}
                                              ELSE @],
                              page, Len(r.val)))
                   EXCEPT !.lastFailed = (resp = RequestFailed)])
        /\ UNCHANGED <<store, clock, tz, call, hist, probe, run, conn>>

\* InternListScraper.scrape: a role without a page, or whose page is scraped
InternListSkip ==
    /\ InLoop
    /\ scr.src = "InternList"
    /\ \/ ROLE_TO_PAGE(scr.roles[scr.i]) = <<>>
       \/ ROLE_TO_PAGE(scr.roles[scr.i]) \in scr.scraped_pages
    /\ scr' = [scr EXCEPT !.i = @ + 1, !.lastFailed = FALSE]
    /\ UNCHANGED <<store, clock, tz, call, hist, probe, run, conn>>

\* one turn of `for url in urls_to_try` of GenericScraper._scrape_role; an
\* error of _extract_jobs_from_page leaves scrape() and reaches safe_scrape
GenericFetch(resp) ==
    LET self == Self(scr.roles)
        role == scr.roles[scr.i]
        urls == UrlsToTry(self, role)
        page == Parsed(Get(resp))
    IN  /\ InLoop
        /\ scr.src = "Generic"
        /\ scr' = With(PageJobs(Get(resp), self, urls[scr.variant], role,
                                LocalNow(clock, tz)),
                       LAMBDA r :
                  [(IF r.kind = "raise" THEN Seen(Failed(scr, r), page, 0)
                    ELSE With(UniqueUrls(r.val, {}, <<>>), LAMBDA role_jobs :
                         IF role_jobs # <<>> \/ scr.variant = Len(urls)
                         THEN Seen([scr EXCEPT !.jobs = @ \o role_jobs, !.i = @ + 1,
                                               !.variant = 1], page, Len(role_jobs))
                         ELSE Seen([scr EXCEPT !.variant = @ + 1], page, 0)))
                   EXCEPT !.lastFailed = (resp = RequestFailed),
                          !.lastUrl = urls[scr.variant]])
        /\ UNCHANGED <<store, clock, tz, call, hist, probe, run, conn>>

\* Ctrl+C while scrape() sleeps in _delay or waits for a response
Interrupt ==
    /\ Running
    /\ scr' = [scr EXCEPT !.out = Raises("KeyboardInterrupt"),
                          !.ret = safe_scrape(Raises("KeyboardInterrupt"))]
    /\ UNCHANGED <<store, clock, tz, call, hist, probe, run, conn>>

\* scrape() returns jobs
ReturnJobs ==
    /\ Running
    /\ scr.i > Len(scr.roles)
    /\ scr' = [scr EXCEPT !.out = Returns(scr.jobs),
                          !.ret = safe_scrape(Returns(scr.jobs))]
    /\ UNCHANGED <<store, clock, tz, call, hist, probe, run, conn>>

\* run_scrape with one scraper enabled, after safe_scrape returned:
\* new_jobs = dedup.filter_new(all_jobs); dedup.purge_old(days=30). new_jobs
\* is what save_to_file and send_email are given.
RunDedup ==
    LET r == FilterLoop(scr.ret.val, [new_jobs |-> <<>>, rows |-> store], clock) IN
    /\ scr.ret.kind = "return"
    /\ call = NoCall
    /\ store' = PurgeKeep(r.rows, IsoFormat(PurgeCutoff(clock, tz, 30)))
    /\ call' = [op |-> "run_scrape", jobs |-> scr.ret.val, days |-> 30,
                result |-> r.new_jobs]
    /\ hist' = NoHist
    /\ UNCHANGED <<clock, tz, probe, scr, run, conn>>

DoStartScrape == \E src \in Sources, roles \in ConfigRoles : StartScrape(src, roles)
DoSiteFetch == \E resp \in Responses(MaxCards - scr.met) : SiteFetch(resp)
DoGenericFetch == \E resp \in Responses(MaxCards - scr.met) : GenericFetch(resp)

ScrapeNext ==
    \/ DoStartScrape
    \/ DoSiteFetch
    \/ InternListSkip
    \/ DoGenericFetch
    \/ Interrupt
    \/ ReturnJobs
    \/ RunDedup

ScrapeSpec == Init /\ [][ScrapeNext]_vars

-----------------------------------------------------------------------------
(* GenericScraper._extract_jobs_from_page, called once on a page *)

\* page_jobs = self._extract_jobs_from_page(soup, url, role), for the role at
\* position k of the configured roles and the URL variant at position v
ExtractJobsFromPage(roles, k, v, page) ==
    /\ probe' = [fn |-> "_extract_jobs_from_page", roles |-> roles,
                 role |-> roles[k], page |-> page,
                 page_url |-> UrlsToTry(Self(roles), roles[k])[v],
                 now |-> LocalNow(clock, tz),
                 out |-> _extract_jobs_from_page(Self(roles), page,
                             UrlsToTry(Self(roles), roles[k])[v], roles[k],
                             LocalNow(clock, tz))]
    /\ UNCHANGED <<store, clock, tz, call, hist, scr, run, conn>>

\* a card whose link reads "QA": <div class="opening"><h3>Data Analyst</h3>
\* <a href="jobs/listing/3">QA</a></div>
K_apply ==
    [name |-> "div", head |-> Heading("h3", T_DA), headA |-> NoEl,
     a |-> Anchor(H_bare, <<"QA">>), ps |-> <<>>, company |-> NoEl,
     location |-> NoEl, desc |-> NoEl, date |-> NoEl, sel |-> "div.opening",
     li |-> FALSE]

PagePool == CardPool \cup {K_apply}

DoExtractJobsFromPage ==
    /\ probe = NoProbe
    /\ \E roles \in ConfigRoles, page \in SeqsUpTo(PagePool, MaxCards) :
           \E k \in 1..Len(roles), v \in 1..5 : ExtractJobsFromPage(roles, k, v, page)

PageNext == DoExtractJobsFromPage

PageSpec == HelperInit /\ [][PageNext]_vars

-----------------------------------------------------------------------------
(* dedup.py, statement by statement, for two runs that overlap.  Each run
   opens its own connection (sqlite3.connect, default isolation level and
   rollback journal): a SELECT outside a transaction reads the committed
   rows; the first INSERT or DELETE of a connection begins a transaction
   and takes the write lock of the file, which one connection holds at a
   time; `with conn:` commits when its block ends and rolls back when an
   exception leaves it. *)

\* the runs whose connection holds the write lock
Writers == {p \in Runs : conn[p].tx}

\* the rows a statement of the connection sees: the committed ones and
\* those of its own open transaction
Visible(rows, c) == rows \cup c.pending

\* INSERT that leaves the table as it is when the key is taken
TxInsert_Ignore(rows, job, now) ==
    IF SelectSeen(rows, _hash_url(job.url)) # {}
    THEN Returns(rows)
    ELSE Returns(InsertSeen(rows, job, now))

\* INSERT into a table without a primary key
TxInsert_NoKey(rows, job, now) == Returns(InsertSeen(rows, job, now))

\* conn.execute("INSERT INTO seen_jobs ..."): url_hash is the PRIMARY KEY
TxInsert(rows, job, now) ==
    IF SelectSeen(rows, _hash_url(job.url)) # {}
    THEN Raises("IntegrityError")
    ELSE Returns(InsertSeen(rows, job, now))

\* a context manager that commits however its block ends
ConnExit_Commit(rows, c, raised) == rows \cup c.pending

\* `with sqlite3.connect(...) as conn:` at the end of its block: the
\* committed rows after conn.commit(), or after the rollback when an
\* exception leaves the block
ConnExit(rows, c, raised) == IF raised THEN rows ELSE rows \cup c.pending

\* the connection after an exception left filter_new
Raised(c, exc) ==
    [c EXCEPT !.pc = "failed", !.tx = FALSE, !.pending = {}, !.out = Raises(exc)]

\* filter_new(jobs) is called: new_jobs = [], sqlite3.connect
CallFilterNew(p, jobs) ==
    /\ conn[p].pc = "idle"
    /\ conn' = [conn EXCEPT ![p] =
                   [NoConn EXCEPT !.pc = IF jobs = <<>> THEN "commit" ELSE "select",
                                  !.jobs = jobs, !.i = 1]]
    /\ UNCHANGED <<store, clock, tz, call, hist, probe, scr, run>>

\* row = conn.execute("SELECT 1 ...").fetchone(); if row is None:
\* new_jobs.append(job)
SelectStep(p) ==
    LET c == conn[p]
        job == c.jobs[c.i]
    IN  /\ c.pc = "select"
        /\ conn' = [conn EXCEPT ![p] =
               IF SelectSeen(Visible(store, c), _hash_url(job.url)) = {}
               THEN [c EXCEPT !.new_jobs = Append(@, job), !.pc = "insert"]
               ELSE [c EXCEPT !.i = @ + 1,
                              !.pc = IF c.i = Len(c.jobs) THEN "commit"
                                     ELSE "select"]]
        /\ UNCHANGED <<store, clock, tz, call, hist, probe, scr, run>>

\* conn.execute("INSERT ..."), the write lock being free or the
\* connection's own; an IntegrityError leaves the with block
InsertStep(p) ==
    LET c == conn[p]
        job == c.jobs[c.i]
    IN  /\ c.pc = "insert"
        /\ Writers \subseteq {p}
        /\ \E r \in {TxInsert(Visible(store, c), job, clock)} :
              /\ conn' = [conn EXCEPT ![p] =
                     IF r.kind = "raise" THEN Raised(c, r.exc)
                     ELSE [c EXCEPT !.tx = TRUE, !.pending = r.val \ store,
                                    !.i = @ + 1,
                                    !.pc = IF c.i = Len(c.jobs) THEN "commit"
                                           ELSE "select"]]
              /\ store' = IF r.kind = "raise" THEN ConnExit(store, c, TRUE)
                          ELSE store
        /\ UNCHANGED <<clock, tz, call, hist, probe, scr, run>>

\* conn.execute("INSERT ...") while the other connection holds the write
\* lock for longer than the timeout of sqlite3.connect (5 seconds):
\* OperationalError, database is locked
InsertBusy(p) ==
    /\ conn[p].pc = "insert"
    /\ ~(Writers \subseteq {p})
    /\ conn' = [conn EXCEPT ![p] = Raised(conn[p], "OperationalError")]
    /\ store' = ConnExit(store, conn[p], TRUE)
    /\ UNCHANGED <<clock, tz, call, hist, probe, scr, run>>

\* conn.commit() and the end of the with block; return new_jobs
CommitStep(p) ==
    /\ conn[p].pc = "commit"
    /\ store' = ConnExit(store, conn[p], FALSE)
    /\ conn' = [conn EXCEPT ![p] =
                   [conn[p] EXCEPT !.pc = "filtered", !.tx = FALSE,
                                   !.pending = {},
                                   !.out = Returns(conn[p].new_jobs)]]
    /\ UNCHANGED <<clock, tz, call, hist, probe, scr, run>>

\* Ctrl+C while filter_new is inside its with block
InterruptFilter(p) ==
    /\ conn[p].pc \in {"select", "insert", "commit"}
    /\ conn' = [conn EXCEPT ![p] = Raised(conn[p], "KeyboardInterrupt")]
    /\ store' = ConnExit(store, conn[p], TRUE)
    /\ UNCHANGED <<clock, tz, call, hist, probe, scr, run>>

\* purge_old(days) after filter_new returned: DELETE and conn.commit(),
\* the write lock being free. A run that is inside filter_new meanwhile
\* notes that rows went away under it.
PurgeStep(p, days) ==
    /\ conn[p].pc = "filtered"
    /\ Writers = {}
    /\ store' = PurgeKeep(store, IsoFormat(PurgeCutoff(clock, tz, days)))
    /\ conn' = [q \in Runs |->
                   IF q = p THEN [conn[q] EXCEPT !.pc = "purged"]
                   ELSE IF conn[q].pc \in {"select", "insert", "commit"}
                        THEN [conn[q] EXCEPT !.purged = TRUE]
                   ELSE conn[q]]
    /\ UNCHANGED <<clock, tz, call, hist, probe, scr, run>>

DoCallFilterNew == \E p \in Runs, jobs \in JobLists : CallFilterNew(p, jobs)
DoSelectStep == \E p \in Runs : SelectStep(p)
DoInsertStep == \E p \in Runs : InsertStep(p)
DoInsertBusy == \E p \in Runs : InsertBusy(p)
DoCommitStep == \E p \in Runs : CommitStep(p)
DoInterruptFilter == \E p \in Runs : InterruptFilter(p)
DoPurgeStep == \E p \in Runs, days \in 0..MaxPurgeDays : PurgeStep(p, days)

TxNext ==
    \/ DoCallFilterNew
    \/ DoSelectStep
    \/ DoInsertStep
    \/ DoInsertBusy
    \/ DoCommitStep
    \/ DoInterruptFilter
    \/ DoPurgeStep

TxSpec == Init /\ [][TxNext]_vars

-----------------------------------------------------------------------------
(* html_report.py: build_html_grouped, as save_to_file and combine_reports
   call it *)

MaxFiles == 2       \* most jobs_*.json files combine_reports finds

\* the dict save_to_file writes for a posting, which json.load gives back
ToDict(job) ==
    [job EXCEPT !.posted_date = IF @ = NoDate THEN None ELSE Given(IsoFormat(@.t))]

\* by_role[r] and unmatched of build_html_grouped
ByRole(jobs, r) == SelectSeq(jobs, LAMBDA job : job.matched_role = r)
Unmatched(jobs) == SelectSeq(jobs, LAMBDA job : job.matched_role = <<>>)

RECURSIVE RoleSections(_, _)
\* for role in roles: a section with the rows of by_role.get(role, []),
\* none when there are no rows
RoleSections(jobs, roles) ==
    IF roles = <<>> THEN <<>>
    ELSE (IF ByRole(jobs, Head(roles)) = <<>> THEN <<>>
          ELSE <<[role |-> Head(roles), rows |-> ByRole(jobs, Head(roles))]>>)
         \o RoleSections(jobs, Tail(roles))

\* build_html_grouped(jobs, roles): the sections of the report in order,
\* and the number under Total Jobs
build_html_grouped(jobs, roles) ==
    [sections |-> RoleSections(jobs, roles)
                  \o (IF Unmatched(jobs) = <<>> THEN <<>>
                      ELSE <<[role |-> <<"Other">>, rows |-> Unmatched(jobs)]>>),
     total |-> Len(jobs)]

RECURSIVE CombineFile(_, _)
\* for job in data: if url and url not in seen_urls: all_jobs.append(job)
CombineFile(data, all_jobs) ==
    IF data = <<>> THEN all_jobs
    ELSE CombineFile(Tail(data),
                     IF Head(data).url # <<>> /\ Head(data).url \notin UrlsOf(all_jobs)
                     THEN Append(all_jobs, Head(data)) ELSE all_jobs)

RECURSIVE CombineFiles(_, _)
\* for jf in json_files: ...
CombineFiles(json_files, all_jobs) ==
    IF json_files = <<>> THEN all_jobs
    ELSE CombineFiles(Tail(json_files), CombineFile(Head(json_files), all_jobs))

\* the role lists of config.yaml and of --roles the reports are built for
ReportRoles ==
    {<<J1.matched_role, J2.matched_role>>, <<J2.matched_role, J1.matched_role>>,
     <<J1.matched_role>>}

\* what a run with the roles `roles` can hand to save_to_file: postings
\* with distinct URLs, as filter_new returns them, each matched to one of
\* the roles or, from intern-list.com, to none
NewJobs(roles) ==
    {jobs \in SeqsUpTo({J1, J2b, J3}, MaxBatch) :
        /\ \A i, j \in 1..Len(jobs) : jobs[i].url = jobs[j].url => i = j
        /\ \A i \in 1..Len(jobs) :
              \/ jobs[i].matched_role = <<>>
              \/ \E k \in 1..Len(roles) : jobs[i].matched_role = roles[k]}

\* the jobs_*.json files of earlier runs, whatever their roles were
JsonFiles ==
    SeqsUpTo({[i \in 1..Len(jobs) |-> ToDict(jobs[i])] :
                 jobs \in UNION {NewJobs(roles) : roles \in ReportRoles}} \ {<<>>},
             MaxFiles) \ {<<>>}

\* save_to_file(new_jobs, output_dir, roles): the HTML report
SaveToFile(jobs, roles) ==
    /\ probe' = [fn |-> "build_html_grouped", by |-> "save_to_file",
                 jobs |-> [i \in 1..Len(jobs) |-> ToDict(jobs[i])],
                 roles |-> roles,
                 out |-> build_html_grouped([i \in 1..Len(jobs) |-> ToDict(jobs[i])],
                                            roles)]
    /\ UNCHANGED <<store, clock, tz, call, hist, scr, run, conn>>

\* combine_reports.main(), config.yaml naming `roles`
CombineReports(json_files, roles) ==
    /\ probe' = [fn |-> "build_html_grouped", by |-> "combine_reports",
                 jobs |-> CombineFiles(json_files, <<>>), roles |-> roles,
                 out |-> build_html_grouped(CombineFiles(json_files, <<>>), roles)]
    /\ UNCHANGED <<store, clock, tz, call, hist, scr, run, conn>>

DoSaveToFile ==
    /\ probe = NoProbe
    /\ \E roles \in ReportRoles : \E jobs \in NewJobs(roles) : SaveToFile(jobs, roles)

DoCombineReports ==
    /\ probe = NoProbe
    /\ \E json_files \in JsonFiles, roles \in ReportRoles :
           CombineReports(json_files, roles)

ReportNext ==
    \/ DoSaveToFile
    \/ DoCombineReports

ReportSpec == HelperInit /\ [][ReportNext]_vars

-----------------------------------------------------------------------------
(* main.py: main() and run_scrape() *)

\* a map without the entry of wayup
SCRAPER_MAP_NoWayUp(scraper_name) ==
    IF scraper_name = "linkedin" THEN Given("LinkedInScraper") ELSE None

\* SCRAPER_MAP.get(scraper_name)
SCRAPER_MAP(scraper_name) ==
    CASE scraper_name = "internlist" -> Given("InternListScraper")
      [] scraper_name = "wayup" -> Given("WayUpScraper")
      [] scraper_name = "simplyhired" -> Given("SimplyHiredScraper")
      [] scraper_name = "indeed" -> Given("IndeedScraper")
      [] scraper_name = "linkedin" -> Given("LinkedInScraper")
      [] scraper_name = "glassdoor" -> Given("GlassdoorScraper")
      [] OTHER -> None

\* x or y, x being None or a non-empty value
OrElse(x, y) == IF x = None THEN y ELSE x.val

\* config.yaml as yaml.safe_load returns it; "monster" has no extractor
ConfigFiles ==
    {[roles |-> <<RoleDS>>, location |-> ConfigLocation, scrapers |-> sc,
      job_type |-> "internship"] :
        sc \in {<<"linkedin", "monster", "indeed">>, <<"monster", "wayup">>,
                <<"glassdoor">>}}

\* the command lines: --now, --no-email, and each of --roles, --location,
\* --sources and --job-type given or not
CommandLines ==
    [now : BOOLEAN, no_email : BOOLEAN,
     roles : {None, Given(<<RoleDA>>)}, location : {None, Given(<<"Austin, TX">>)},
     sources : {None, Given(<<"simplyhired">>)}, job_type : {None, Given("job")}]

\* the keyword arguments main() calls run_scrape with when --now is given,
\* and those of the call without --now and of every scheduled call
NowKwargs(args) ==
    [no_email |-> args.no_email, cli_roles |-> args.roles,
     cli_location |-> args.location, cli_sources |-> args.sources,
     cli_job_type |-> args.job_type]
LoopKwargs(args) ==
    [no_email |-> args.no_email, cli_roles |-> None, cli_location |-> None,
     cli_sources |-> None, cli_job_type |-> None]

\* what constructing a scraper gives: the object, or the error of
\* UserAgent() when fake_useragent cannot load its data
Constructed == {Returns("scraper"), Raises("FakeUserAgentError")}

\* what scrape() gives: a list of at most n postings, or an error
ScrapeOutcomes(n) ==
    {Returns(jobs) : jobs \in SeqsUpTo({J1, J2}, n)}
    \cup {Raises("RequestException"), Raises("TypeError")}

\* the environment after load_dotenv(): which of the three are set
Environments == SUBSET {"GMAIL_ADDRESS", "GMAIL_APP_PASSWORD", "RECIPIENT_EMAIL"}

\* main() up to its first call of run_scrape
Main(args) ==
    /\ run.phase = "none"
    /\ run' = [NoRun EXCEPT !.phase = "called", !.args = args,
                            !.kwargs = IF args.now THEN NowKwargs(args)
                                       ELSE LoopKwargs(args)]
    /\ UNCHANGED <<store, clock, tz, call, hist, probe, scr, conn>>

\* the scheduler calls run_scrape again, the call before having returned or,
\* inside the scheduler, raised
Scheduled ==
    /\ run.phase = "complete" \/ (run.phase = "raised" /\ run.sched)
    /\ ~run.args.now
    /\ run.n < MaxRuns
    /\ run' = [NoRun EXCEPT !.phase = "called", !.args = run.args,
                            !.kwargs = LoopKwargs(run.args), !.n = run.n,
                            !.sched = TRUE]
    /\ UNCHANGED <<store, clock, tz, call, hist, probe, scr, conn>>

\* run_scrape down to `all_jobs = []`
RunScrapeBegin(config) ==
    /\ run.phase = "called"
    /\ run' = [run EXCEPT
                 !.phase = "sources", !.n = @ + 1, !.i = 1,
                 !.roles = OrElse(run.kwargs.cli_roles, config.roles),
                 !.location = OrElse(run.kwargs.cli_location, config.location),
                 !.enabled_scrapers =
                     OrElse(run.kwargs.cli_sources, config.scrapers),
                 !.job_type = OrElse(run.kwargs.cli_job_type, config.job_type)]
    /\ UNCHANGED <<store, clock, tz, call, hist, probe, scr, conn>>

InSources == run.phase = "sources" /\ run.i <= Len(run.enabled_scrapers)

\* for scraper_name in enabled_scrapers: no scraper_cls, continue
SourceUnknown ==
    /\ InSources
    /\ SCRAPER_MAP(run.enabled_scrapers[run.i]) = None
    /\ run' = [run EXCEPT !.i = @ + 1]
    /\ UNCHANGED <<store, clock, tz, call, hist, probe, scr, conn>>

\* for scraper_name in enabled_scrapers: construct the scraper, safe_scrape,
\* all_jobs.extend(jobs); `made` and `out` are what the constructor and
\* scrape() give
SourceRun(made, out) ==
    /\ InSources
    /\ SCRAPER_MAP(run.enabled_scrapers[run.i]) # None
    /\ run' = IF made.kind = "raise"
              THEN [run EXCEPT !.phase = "raised", !.exc = made.exc]
              ELSE With(safe_scrape(out), LAMBDA jobs :
                   IF jobs.kind = "raise"
                   THEN [run EXCEPT !.phase = "raised", !.exc = jobs.exc]
                   ELSE [run EXCEPT
                           !.i = @ + 1, !.all_jobs = @ \o jobs.val,
                           !.parts = Append(@, [name |-> run.enabled_scrapers[run.i],
                                                failed |-> out.kind = "raise",
                                                jobs |-> jobs.val])])
    /\ UNCHANGED <<store, clock, tz, call, hist, probe, scr, conn>>

\* the rows are those of jobs.db before the call
Dedup_NoCommit ==
    /\ run.phase = "sources"
    /\ run.i > Len(run.enabled_scrapers)
    /\ \E r \in {FilterLoop(run.all_jobs, [new_jobs |-> <<>>, rows |-> store],
                            clock)} :
          /\ store' = PurgeKeep(store, IsoFormat(PurgeCutoff(clock, tz, 30)))
          /\ run' = [run EXCEPT !.phase = "deduped", !.new_jobs = r.new_jobs]
    /\ UNCHANGED <<clock, tz, call, hist, probe, scr, conn>>

\* new_jobs = dedup.filter_new(all_jobs); dedup.purge_old(days=30)
Dedup ==
    /\ run.phase = "sources"
    /\ run.i > Len(run.enabled_scrapers)
    /\ \E r \in {FilterLoop(run.all_jobs, [new_jobs |-> <<>>, rows |-> store],
                            clock)} :
          /\ store' = PurgeKeep(r.rows, IsoFormat(PurgeCutoff(clock, tz, 30)))
          /\ run' = [run EXCEPT !.phase = "deduped", !.new_jobs = r.new_jobs]
    /\ UNCHANGED <<clock, tz, call, hist, probe, scr, conn>>

\* what save_to_file gives: the two files written, or the error of mkdir, open
\* or write
Saved == {Returns("written"), Raises("OSError")}

\* save_to_file(new_jobs, output_dir, roles)
SaveStep(wrote) ==
    /\ run.phase = "deduped"
    /\ run' = IF wrote.kind = "raise"
              THEN [run EXCEPT !.phase = "raised", !.exc = wrote.exc]
              ELSE [run EXCEPT !.phase = "saved"]
    /\ UNCHANGED <<store, clock, tz, call, hist, probe, scr, conn>>

\* a message whatever the list
send_email_Always(jobs) == "attempted"

\* send_email(jobs, ...): nothing to send, or a message handed to SMTP
send_email(jobs) == IF jobs = <<>> THEN "none" ELSE "attempted"

\* `if not no_email: ...` down to "Scrape cycle complete."
EmailStep(env) ==
    /\ run.phase = "saved"
    /\ run' = [run EXCEPT
                 !.phase = "complete", !.env = env,
                 !.email = IF run.kwargs.no_email THEN "none"
                           ELSE IF Cardinality(env) < 3 THEN "none"
                           ELSE send_email(run.new_jobs)]
    /\ UNCHANGED <<store, clock, tz, call, hist, probe, scr, conn>>

DoMain == \E args \in CommandLines : Main(args)
DoRunScrapeBegin == \E config \in ConfigFiles : RunScrapeBegin(config)
DoSourceRun ==
    \E made \in Constructed, out \in ScrapeOutcomes(MaxBatch - Len(run.all_jobs)) :
        SourceRun(made, out)
DoSaveStep == \E wrote \in Saved : SaveStep(wrote)
DoEmailStep == \E env \in Environments : EmailStep(env)

RunNext ==
    \/ DoMain
    \/ Scheduled
    \/ DoRunScrapeBegin
    \/ SourceUnknown
    \/ DoSourceRun
    \/ Dedup
    \/ DoSaveStep
    \/ DoEmailStep

RunSpec == Init /\ [][RunNext]_vars

-----------------------------------------------------------------------------
(* main(), started again on the same jobs.db after the process has ended *)

\* run_scrape has raised outside the scheduler: the process has ended on the
\* exception
Exited == run.phase = "raised" /\ ~run.sched

\* the same command line starts main() again, up to its first call of
\* run_scrape; n goes on counting the calls of run_scrape on this jobs.db
MainAgain ==
    /\ Exited
    /\ run.n < MaxRuns
    /\ run' = [NoRun EXCEPT !.phase = "called", !.args = run.args,
                            !.kwargs = IF run.args.now THEN NowKwargs(run.args)
                                       ELSE LoopKwargs(run.args),
                            !.n = run.n]
    /\ UNCHANGED <<store, clock, tz, call, hist, probe, scr, conn>>

\* the command lines without an override
PlainLines == {args \in CommandLines :
                 /\ args.roles = None /\ args.location = None
                 /\ args.sources = None /\ args.job_type = None}

DoMainPlain == \E args \in PlainLines : Main(args)

OrderNext ==
    \/ DoMainPlain
    \/ MainAgain
    \/ Scheduled
    \/ DoRunScrapeBegin
    \/ SourceUnknown
    \/ DoSourceRun
    \/ Dedup
    \/ DoSaveStep
    \/ DoEmailStep

OrderSpec == Init /\ [][OrderNext]_vars

-----------------------------------------------------------------------------
(* The deduplication store: C1 - C4 *)

SeenUrls(rows) == {r.url : r \in rows}

\* the step is a call of filter_new (its argument is then call'.jobs)
FilterNewStep == call'.op = "filter_new" /\ filter_new(call'.jobs)

\* the step is a call of purge_old (its argument is then call'.days)
PurgeOldStep == call'.op = "purge_old" /\ purge_old(call'.days)

\* the positions of L whose URL has no row in `rows` and does not occur
\* earlier in L
FirstUnseen(L, rows) ==
    {i \in 1..Len(L) : /\ L[i].url \notin SeenUrls(rows)
                       /\ \A j \in 1..(i - 1) : L[j].url # L[i].url}

\* the elements of L at the positions I, in the order of L
PickInOrder(L, I) ==
    LET n == Cardinality(I)
        f == CHOOSE g \in [1..n -> I] : \A a, b \in 1..n : a < b => g[a] < g[b]
    IN [k \in 1..n |-> L[f[k]]]

\* C1: filter_new(L) returns, in input order, exactly the postings of L whose
\* URL was absent from the store when the item was processed (not stored
\* before the call, not earlier in L), records a row for each of them, and
\* never returns two postings with the same URL.
C1_FilterNewReturnsUnseen ==
    [][FilterNewStep =>
          /\ call'.result = PickInOrder(call'.jobs, FirstUnseen(call'.jobs, store))
          /\ \A i \in 1..Len(call'.result) :
                \E r \in store' : /\ r.url = call'.result[i].url
                                  /\ r.url_hash = _hash_url(r.url)
                                  /\ r.title = call'.result[i].title
                                  /\ r.source = call'.result[i].source
          /\ \A i, j \in 1..Len(call'.result) :
                call'.result[i].url = call'.result[j].url => i = j]_vars

\* a batch holding one URL twice, of which the first occurrence was returned
C1_Witness ==
    /\ call.op = "filter_new"
    /\ Len(call.jobs) = 2
    /\ call.jobs[1].url = call.jobs[2].url
    /\ call.jobs[1] # call.jobs[2]
    /\ call.result = <<call.jobs[1]>>
    /\ call.jobs[1].url \in SeenUrls(store)

\* C2: with no purge_old in between, a URL is returned as new by at most one
\* filter_new call, the first whose input holds it; later calls drop it, and
\* the same list handed in twice in a row comes back empty the second time.
C2_NewAtMostOnce ==
    [][FilterNewStep =>
          /\ UrlsOf(call'.result) \cap hist.returned = {}
          /\ UrlsOf(call'.result) \cap hist.offered = {}
          /\ (call.op = "filter_new" /\ call.jobs = call'.jobs) => call'.result = <<>>]_vars

\* a second call that drops every posting, each returned as new before
C2_Witness ==
    /\ call.op = "filter_new"
    /\ call.jobs # <<>>
    /\ call.result = <<>>
    /\ UrlsOf(call.jobs) \subseteq hist.returned

\* C3: purge_old(days) at instant t deletes a row if and only if its
\* first_seen is an earlier instant than t minus `days` days.
C3_PurgeDeletesExactlyOlder ==
    [][PurgeOldStep =>
          \A r \in store :
             (r \notin store') <=>
                (InstantOf(r.first_seen) < clock - call'.days * MinutesPerDay)]_vars

\* C4: rows are created only by filter_new, for a URL of its input that had
\* no row; a row once stored is never changed (a later filter_new leaves it
\* as it is); rows are removed only by purge_old, which adds and changes none.
C4_RowLifecycle ==
    [][/\ FilterNewStep =>
            /\ store \subseteq store'
            /\ \A r \in store' \ store :
                  /\ r.url \in UrlsOf(call'.jobs)
                  /\ r.url \notin SeenUrls(store)
                  /\ r.first_seen = CurrentTimestamp(clock)
       /\ PurgeOldStep => store' \subseteq store
       /\ store' \subseteq store \/ FilterNewStep
       /\ store \subseteq store' \/ PurgeOldStep]_vars

\* a URL observed again later, under another title, whose row kept the
\* title, source and first_seen of its first observation
C4_Witness ==
    /\ call.op = "filter_new"
    /\ call.result = <<>>
    /\ \E i \in 1..Len(call.jobs) : \E r \in store :
          /\ r.url = call.jobs[i].url
          /\ r.title # call.jobs[i].title
          /\ r.source # call.jobs[i].source
          /\ InstantOf(r.first_seen) < clock

-----------------------------------------------------------------------------
(* The posting record and its helpers: C5, C7 - C9 *)

\* the two strings are the same, character for character
SameText(a, b) == Len(a) = Len(b) /\ \A i \in 1..Len(a) : a[i] = b[i]

\* C5: A == B holds exactly when B is a posting whose url is the same string
\* as A's (case and query string included), whatever the other fields are;
\* equal postings have equal hashes; a posting equals no value of another
\* class.
C5_EqualIffSameUrl ==
    probe.fn = "__eq__" =>
        /\ probe.out <=> (/\ probe.other.cls = "Job"
                          /\ SameText(probe.self.url, probe.other.val.url))
        /\ (probe.other.cls = "Job" /\ probe.out)
              => probe.hashes[1] = probe.hashes[2]
        /\ probe.other.cls # "Job" => ~probe.out

\* two postings that differ in title, company, location and source, found
\* equal because their URLs are the same
C5_Witness ==
    /\ probe.fn = "__eq__"
    /\ probe.other.cls = "Job"
    /\ probe.out
    /\ probe.self.title # probe.other.val.title
    /\ probe.self.company # probe.other.val.company
    /\ probe.self.location # probe.other.val.location
    /\ probe.self.source # probe.other.val.source

\* C7: is_within_days never raises; it returns true for an absent date and
\* otherwise true exactly when posted_date >= now - days.
C7_WithinDaysTotal ==
    probe.fn = "is_within_days" =>
        /\ probe.out.kind = "return"
        /\ probe.posted_date = NoDate => probe.out.val
        /\ probe.posted_date # NoDate =>
              (probe.out.val <=>
                  probe.posted_date.t >= probe.now - probe.days * MinutesPerDay)

\* C8: parse_relative_time never raises, whatever the text; it returns none
\* when the text holds no recognised unit and when the number before the
\* unit cannot be parsed or cannot be applied.
C8_ParseNeverRaises ==
    probe.fn = "parse_relative_time" =>
        LET text == Strip(LowerStr(probe.text))
            units == {"minute", "hour", "day", "just now", "moment"}
        IN /\ probe.out.kind = "return"
           /\ (\A u \in units : ~HasUnit(text, u)) => probe.out.val = NoDate

\* the role takes part in the match: every keyword, or all but one (and at
\* least one), is in the lower-cased title
Qualifies(role, title) ==
    LET kws == Keywords(role)
        present == {i \in 1..Len(kws) : Contains(LowerStr(title), kws[i])}
    IN \/ present = 1..Len(kws)
       \/ Cardinality(present) >= Max(Len(kws) - 1, 1)

\* C9: _match_role returns the first role in configured order that
\* qualifies, the empty string when none does, and never a role none of
\* whose keywords is in the title.
C9_MatchRoleFirstQualifying ==
    probe.fn = "_match_role" =>
        LET roles == probe.roles
            hits == {i \in 1..Len(roles) : Qualifies(roles[i], probe.title)}
        IN /\ hits = {} => probe.out = <<>>
           /\ hits # {} =>
                 \E i \in hits : /\ \A j \in hits : i <= j
                                 /\ probe.out = roles[i]
           /\ \A i \in 1..Len(roles) :
                 CountIn(Keywords(roles[i]), LowerStr(probe.title)) = 0
                    => probe.out # roles[i]

-----------------------------------------------------------------------------
(* One scraper run: C6, C10 *)

\* the postings safe_scrape handed to run_scrape, and those run_scrape gave
\* to filter_new and took from it for the JSON file and the email
Surfaced ==
    {scr.jobs[i] : i \in 1..Len(scr.jobs)}
    \cup (IF scr.ret.kind = "return"
          THEN {scr.ret.val[i] : i \in 1..Len(scr.ret.val)} ELSE {})
    \cup (IF call.op = "run_scrape"
          THEN {call.jobs[i] : i \in 1..Len(call.jobs)}
               \cup {call.result[i] : i \in 1..Len(call.result)}
          ELSE {})

\* the candidates of the page parsed last from which the extractor can take
\* a URL: those with an href, which for the site extractors must not be
\* empty, and which urljoin resolves against the page for the generic one
Extractable ==
    scr.lastCards - scr.lastNoHref
    - (IF scr.src = "Generic" THEN 0 ELSE scr.lastEmptyHref)

\* C6: every posting an extractor returns, and so every posting passed to
\* filter_new and kept for the JSON output and the email, has a non-empty
\* url; a page yields no more postings than it has candidates from which a
\* URL can be extracted, the others being discarded during extraction.
C6_UrlNonEmpty ==
    /\ \A job \in Surfaced : job.url # <<>>
    /\ scr.lastFound <= Extractable

\* a page with a candidate that has no link and one that has, whose posting
\* came through filter_new
C6_Witness ==
    /\ call.op = "run_scrape"
    /\ call.result # <<>>
    /\ scr.lastNoHref >= 1
    /\ scr.lastFound >= 1

\* C10 as stated: safe_scrape never propagates an exception: whenever
\* scrape() raises it returns the empty list, and whenever scrape() returns
\* a list it returns that same list.
C10_NeverPropagates ==
    scr.ret # Pending =>
        /\ scr.ret.kind = "return"
        /\ scr.out.kind = "raise" => scr.ret.val = <<>>
        /\ scr.out.kind = "return" => scr.ret.val = scr.out.val

\* C10, amended: safe_scrape never propagates an exception that derives from
\* Exception: whenever scrape() raises one it returns the empty list, whatever
\* scrape() had collected, and whenever scrape() returns a list it returns
\* that same list unchanged; a KeyboardInterrupt raised in scrape()
\* propagates.
C10_CatchesException ==
    scr.ret # Pending =>
        /\ scr.out.kind = "return" =>
              scr.ret = scr.out /\ scr.ret.val = scr.jobs
        /\ scr.out.kind = "raise" /\ scr.out.exc # "KeyboardInterrupt" =>
              scr.ret = Returns(<<>>)
        /\ scr.out.kind = "raise" /\ scr.out.exc = "KeyboardInterrupt" =>
              scr.ret = scr.out

\* scrape() had collected postings for one role when the page of the next
\* role raised a TypeError, and safe_scrape returned the empty list
C10_Witness ==
    /\ scr.out = Raises("TypeError")
    /\ scr.jobs # <<>>
    /\ scr.ret = Returns(<<>>)

-----------------------------------------------------------------------------
(* main() and run_scrape(): C11, C12, C14, C15 *)

\* C11: once the configuration is read, no failure confined to one source
\* (constructing its extractor, the network, parsing, any exception while
\* scraping) aborts run_scrape: no call of run_scrape ends by raising while
\* it goes through its sources.
C11_SourceFailureNeverAborts ==
    ~(run.phase = "raised" /\ run.i <= Len(run.enabled_scrapers))

\* the names SCRAPER_MAP has an extractor for
KnownSources ==
    {"internlist", "wayup", "simplyhired", "indeed", "linkedin", "glassdoor"}

RECURSIVE Merged(_)
\* the lists the sources returned, one after the other
Merged(parts) ==
    IF parts = <<>> THEN <<>> ELSE Head(parts).jobs \o Merged(Tail(parts))

\* C12: an enabled source name without an extractor is skipped without
\* error: it contributes no postings, every known source listed before and
\* after it is run, and the merged list holds their postings in source order.
C12_UnknownSourceSkipped ==
    /\ run.phase \in {"sources", "deduped", "saved", "complete"} =>
          /\ [k \in 1..Len(run.parts) |-> run.parts[k].name]
                = SelectSeq(SubSeq(run.enabled_scrapers, 1, run.i - 1),
                            LAMBDA name : name \in KnownSources)
          /\ run.all_jobs = Merged(run.parts)
    /\ run.phase \in {"deduped", "saved", "complete"} =>
          run.i = Len(run.enabled_scrapers) + 1
    /\ run.phase = "raised" /\ run.i <= Len(run.enabled_scrapers) =>
          run.enabled_scrapers[run.i] \in KnownSources

\* a run over a known source, an unknown one and a known one, both known
\* ones having returned postings
C12_Witness ==
    /\ run.phase = "complete"
    /\ run.enabled_scrapers = <<"linkedin", "monster", "indeed">>
    /\ Len(run.parts) = 2
    /\ run.parts[1].jobs # <<>>
    /\ run.parts[2].jobs # <<>>

\* C14: the email is attempted if and only if email is not suppressed by the
\* no-email flag, all three credentials are present and the list of new
\* postings is non-empty; in every other case no message is sent, and the run
\* completes.
C14_EmailIffConfiguredAndNew ==
    /\ run.phase = "complete" =>
          (run.email = "attempted"
             <=> /\ ~run.kwargs.no_email
                 /\ run.env = {"GMAIL_ADDRESS", "GMAIL_APP_PASSWORD",
                               "RECIPIENT_EMAIL"}
                 /\ run.new_jobs # <<>>)
    /\ run.phase # "complete" => run.email = "none"

\* a run that sent its new postings
C14_Witness ==
    /\ run.phase = "complete"
    /\ run.email = "attempted"
    /\ run.new_jobs # <<>>

\* C15: whenever a CLI override for roles, location, sources or job type is
\* given, every run started by that invocation (the one-shot run, the first
\* run of the loop and each scheduled run) uses the CLI value.
C15_CliOverridesUsed ==
    run.phase \in {"sources", "deduped", "saved", "complete", "raised"} =>
        /\ run.args.roles # None => run.roles = run.args.roles.val
        /\ run.args.location # None => run.location = run.args.location.val
        /\ run.args.sources # None => run.enabled_scrapers = run.args.sources.val
        /\ run.args.job_type # None => run.job_type = run.args.job_type.val

-----------------------------------------------------------------------------
(* The extractors: C13, C18 - C20 *)

\* C13: in every extractor, a network failure on the fetch for a role yields
\* no postings for that fetch only: the postings of the roles before it are
\* kept, scrape() goes on with the next fetch, and the failure does not
\* leave scrape(). (A turn of the loop is a step that Ctrl+C did not end.)
C13_FetchFailureContained ==
    [][(/\ InLoop /\ scr' # scr
        /\ scr'.lastFailed
        /\ scr'.out # Raises("KeyboardInterrupt")) =>
          /\ scr'.jobs = scr.jobs
          /\ scr'.out = Pending /\ scr'.ret = Pending
          /\ \/ scr'.i = scr.i + 1
             \/ scr.src = "Generic" /\ scr'.i = scr.i
                                     /\ scr'.variant = scr.variant + 1]_vars

\* the fetch for the last role failed after an earlier role had given
\* postings, and scrape() returned them
C13_Witness ==
    /\ scr.lastFailed
    /\ scr.out.kind = "return"
    /\ scr.out.val # <<>>

\* C18: in every extractor, the generic one included, an error raised while
\* parsing one candidate only skips that candidate: scrape() does not end
\* with it, and the postings extracted so far are what safe_scrape returns.
C18_CardErrorSkipsOnlyCard ==
    /\ ~(scr.out.kind = "raise" /\ IsException(scr.out.exc))
    /\ scr.ret # Pending /\ scr.out # Raises("KeyboardInterrupt") =>
          scr.ret = Returns(scr.jobs)

\* the same of the six site extractors alone, whose card loops catch
C18_SiteCardErrorSkipped ==
    scr.src \in SiteSources =>
        /\ ~(scr.out.kind = "raise" /\ IsException(scr.out.exc))
        /\ scr.ret # Pending /\ scr.out # Raises("KeyboardInterrupt") =>
              scr.ret = Returns(scr.jobs)

\* C19: no extractor emits a posting with an empty title.
C19_TitleNonEmpty == \A job \in Surfaced : job.title # <<>>

\* the postings scrape() has collected
Emitted == {scr.jobs[i] : i \in 1..Len(scr.jobs)}

\* C20: every posting an extractor emits has no posted_date or one that is
\* not older than now - max_age_days at extraction time; a candidate dated
\* before that is never emitted.
C20_EmittedWithinDays ==
    \A job \in Emitted :
        \/ job.posted_date = NoDate
        \/ /\ ~job.posted_date.aware
           /\ job.posted_date.t >=
                  LocalNow(clock, tz) - max_age_days * MinutesPerDay

\* a page with two dated candidates, of which the recent one alone was
\* emitted
C20_Witness ==
    /\ scr.lastCards = 2
    /\ scr.lastNoHref = 0
    /\ scr.lastEmptyHref = 0
    /\ scr.lastFound = 1
    /\ \E job \in Emitted : job.posted_date # NoDate

\* C21: every posting an extractor emits carries the matcher's result for
\* its title when that is non-empty and otherwise the role of the search
\* query, one of the configured roles; so no matched_role is empty.
C21_MatchedRoleOrQueryRole ==
    \A job \in Emitted :
        /\ job.matched_role # <<>>
        /\ _match_role(scr.roles, job.title) # <<>> =>
              job.matched_role = _match_role(scr.roles, job.title)
        /\ _match_role(scr.roles, job.title) = <<>> =>
              \E k \in 1..Len(scr.roles) : job.matched_role = scr.roles[k]

\* the same of every extractor but InternListScraper
C21_FallbackOutsideInternList ==
    scr.src # "InternList" => C21_MatchedRoleOrQueryRole

\* the location texts the candidates of the pages carry
PageLocations == {c.location.text : c \in {k \in CardPool : k.location # NoEl}}

\* C22: for every extractor, a posting for which no location could be
\* extracted from the page has the configured search location of the run.
C22_LocationDefaultsToConfigured ==
    \A job \in Emitted :
        job.location \notin PageLocations => job.location = ConfigLocation

\* the same of every extractor but IndeedScraper and GlassdoorScraper
C22_DefaultOutsideIndeedGlassdoor ==
    scr.src \notin {"Indeed", "Glassdoor"} => C22_LocationDefaultsToConfigured

\* the query-parameter conventions in the order of the claim, after the
\* bare URL
Conventions == <<"?q=", "?query=", "?search=", "?keywords=">>

\* a step in which GenericScraper requested one URL variant for the role at
\* hand and went on
GenericRequest ==
    /\ scr.src = "Generic"
    /\ InLoop
    /\ scr' # scr
    /\ scr'.out = Pending

\* C23: for each role the generic extractor requests the bare URL, then
\* ?q=, ?query=, ?search=, ?keywords=; a variant that fails to fetch or
\* yields nothing is passed over for the next one; at the first variant
\* that yields postings the role ends with exactly those postings and no
\* later variant is requested.
C23_VariantsInOrderUntilFound ==
    [][GenericRequest =>
        LET base == Self(scr.roles).base_url
            role == scr.roles[scr.i]
        IN /\ scr.variant \in 1..(Len(Conventions) + 1)
           /\ scr'.lastUrl =
                  IF scr.variant = 1 THEN base
                  ELSE base \o <<Conventions[scr.variant - 1]>> \o quote_plus(role)
           /\ SubSeq(scr'.jobs, 1, Len(scr.jobs)) = scr.jobs
           /\ Len(scr'.jobs) = Len(scr.jobs) + scr'.lastFound
           /\ scr'.lastFailed => scr'.lastFound = 0
           /\ scr'.lastFound >= 1 => scr'.i = scr.i + 1 /\ scr'.variant = 1
           /\ scr'.lastFound = 0 /\ scr.variant <= Len(Conventions) =>
                  scr'.i = scr.i /\ scr'.variant = scr.variant + 1
           /\ scr'.lastFound = 0 /\ scr.variant = Len(Conventions) + 1 =>
                  scr'.i = scr.i + 1 /\ scr'.variant = 1]_vars

\* the bare URL and ?q= gave nothing, ?query= gave a posting, and the
\* extractor is at the bare URL of the next role
C23_Witness ==
    /\ scr.src = "Generic"
    /\ scr.lastUrl = Self(scr.roles).base_url \o <<"?query=">>
                         \o quote_plus(scr.roles[1])
    /\ scr.lastFound >= 1
    /\ scr.i = 2
    /\ scr.variant = 1
    /\ scr.out = Pending

\* the candidates of the page a card selector matches
MatchedBy(page, selector) == SelectSeq(page, LAMBDA c : c.sel = selector)

\* what each of the three strategies gives on the page of the probe
Strategy1 ==
    _try_structured_cards(Self(probe.roles), probe.page, probe.page_url,
                          probe.role, probe.now)
Strategy2 ==
    _try_job_links(Self(probe.roles), probe.page, probe.page_url, probe.role,
                   probe.now)
Strategy3 ==
    _try_list_items(Self(probe.roles), probe.page, probe.page_url, probe.role,
                    probe.now)

\* C24 as stated: page extraction returns the output of the first of
\* structured cards, job links, list items that meets its threshold, at
\* least 2 results for structured cards and at least 1 for the other two;
\* structured cards with fewer than 2 results are passed over.
C24_FirstStrategyByResults ==
    (/\ probe.fn = "_extract_jobs_from_page"
     /\ Strategy1.kind = "return"
     /\ Strategy2.kind = "return"
     /\ Strategy3.kind = "return") =>
        /\ Len(Strategy1.val) >= 2 => probe.out = Strategy1
        /\ Len(Strategy1.val) < 2 /\ Len(Strategy2.val) >= 1 =>
              probe.out = Strategy2
        /\ Len(Strategy1.val) < 2 /\ Len(Strategy2.val) < 1 =>
              probe.out = Strategy3

\* C24, amended: page extraction tries structured cards, then job links,
\* then list items and returns the output of the first that meets its
\* threshold: for structured cards a selector that matches at least 2
\* candidate elements of which at least 1 yields a posting, for the other
\* two at least 1 result; a later strategy decides only when every earlier
\* one returned nothing.
C24_FirstStrategyAtThreshold ==
    probe.fn = "_extract_jobs_from_page" =>
        /\ (\A k \in 1..Len(card_selectors) :
                Len(MatchedBy(probe.page, card_selectors[k])) < 2)
              => Strategy1 = Returns(<<>>)
        /\ Strategy1 # Returns(<<>>) => probe.out = Strategy1
        /\ Strategy1 = Returns(<<>>) /\ Strategy2 # Returns(<<>>) =>
              probe.out = Strategy2
        /\ Strategy1 = Returns(<<>>) /\ Strategy2 = Returns(<<>>) =>
              probe.out = Strategy3

\* a page with two div.opening candidates of which one has no link: the
\* one posting of the structured cards is the output, where the job links
\* and the list items give nothing
C24_Witness ==
    /\ probe.fn = "_extract_jobs_from_page"
    /\ probe.page = <<K_apply, K_noa>>
    /\ Strategy2 = Returns(<<>>)
    /\ Strategy3 = Returns(<<>>)
    /\ probe.out = Strategy1
    /\ probe.out.kind = "return"
    /\ Len(probe.out.val) = 1

-----------------------------------------------------------------------------
(* The helpers: C16, C17 *)

\* at least max(k - 1, 1) of the role's k keywords are in the lower-cased title
AllButOne(role, title) ==
    CountIn(Keywords(role), LowerStr(title)) >= Max(Len(Keywords(role)) - 1, 1)

\* C16: for every role list and title, the matcher accepts a role exactly
\* when at least max(k - 1, 1) of its k significant keywords appear in the
\* title, roles with no word longer than 3 characters (k = 0) included: it
\* returns the first role the all-but-one rule accepts, and the empty string
\* when the rule accepts none.
C16_AcceptIsAllButOne ==
    probe.fn = "_match_role" =>
        LET accepted == {i \in 1..Len(probe.roles) :
                            AllButOne(probe.roles[i], probe.title)}
        IN /\ accepted = {} => probe.out = <<>>
           /\ \A i \in accepted :
                 (\A j \in accepted : i <= j) => probe.out = probe.roles[i]

\* the unit the priority minute, hour, day picks in the text, "now" for
\* just now and moment, "" when the text names none
PickedUnit(text) ==
    IF \E u \in {"minute", "hour", "day"} : HasUnit(text, u)
    THEN CHOOSE u \in {"minute", "hour", "day"} :
            /\ HasUnit(text, u)
            /\ u = "hour" => ~HasUnit(text, "minute")
            /\ u = "day" => ~HasUnit(text, "minute") /\ ~HasUnit(text, "hour")
    ELSE IF HasUnit(text, "just now") \/ HasUnit(text, "moment") THEN "now"
    ELSE ""

\* the digits that stand before the first occurrence of the unit
DigitsBefore(text, unit) ==
    LET first == CHOOSE k \in 1..Len(text) :
                    /\ TokHas(text[k], unit)
                    /\ \A j \in 1..(k - 1) : ~TokHas(text[j], unit)
    IN SelectSeq(SubSeq(text, 1, first - 1), IsDigits)

MinutesOf(unit) ==
    CASE unit = "minute" -> 1
      [] unit = "hour" -> MinutesPerHour
      [] unit = "day" -> MinutesPerDay

\* C17: parse_relative_time picks the unit by the priority minute, hour,
\* day, just-now/moment whatever the order of the words; the amount is the
\* number formed by the digits before the picked keyword (0 when there are
\* none) and the result is now minus that many units, wherever the digits
\* form a decimal number and that instant is one a datetime holds; for
\* just-now/moment the result is now.
C17_PriorityAndAmount ==
    probe.fn = "parse_relative_time" =>
        LET text == Strip(LowerStr(probe.text))
            unit == PickedUnit(text)
            digits == DigitsBefore(text, unit)
            amount == IntOf(digits, 0)
        IN /\ unit = "now" => probe.out = Returns(DateTime(probe.now, FALSE))
           /\ (/\ unit \in {"minute", "hour", "day"}
               /\ \A i \in 1..Len(digits) : IsDecimal(digits[i])
               /\ ~SubOverflows(probe.now, amount, MinutesOf(unit)))
              => probe.out = Returns(DateTime(probe.now - amount * MinutesOf(unit),
                                              FALSE))

\* "5 Hours minute": the minute branch is taken although hour comes first,
\* and the 5 before it is the amount
C17_Witness ==
    /\ probe.fn = "parse_relative_time"
    /\ probe.text = <<"5", "Hours", "minute">>
    /\ probe.out = Returns(DateTime(probe.now - 5, FALSE))

-----------------------------------------------------------------------------
(* Two overlapping runs on one store: C25, C27, C28 *)

\* the run is inside the with block of filter_new
InFilter(c) == c.pc \in {"select", "insert", "commit"}

\* C25: filter_new is all-or-nothing for its batch: while the call runs
\* none of the rows it inserted is committed, and when it fails partway
\* through the list the committed rows are what they were, none of its
\* inserts among them.
C25_FailedCallPersistsNothing ==
    [][\A p \in Runs :
          /\ InFilter(conn'[p]) => conn'[p].pending \cap store' = {}
          /\ InFilter(conn[p]) /\ conn'[p].pc = "failed" =>
                /\ store' = store
                /\ conn[p].pending \cap store' = {}]_vars

\* a call that inserted the row of its first posting and was interrupted
\* at the second: the store has no row for the first
C25_Witness ==
    \E p \in Runs :
        /\ conn[p].pc = "failed"
        /\ conn[p].i = 2
        /\ conn[p].new_jobs # <<>>
        /\ conn[p].new_jobs[1] = conn[p].jobs[1]
        /\ SelectSeen(store, _hash_url(conn[p].jobs[1].url)) = {}

\* no two rows of the table have the same URL
OnePerUrl(rows) == \A r1, r2 \in rows : r1.url = r2.url => r1 = r2

\* every one of the URLs has a row in the table
AllStored(rows, urls) == \A url \in urls : \E r \in rows : r.url = url

\* the step on which filter_new of run p returns
FilterReturns(p) == conn[p].pc = "commit" /\ conn'[p].pc = "filtered"

ReturnedNew(c) == IF c.out.kind = "return" THEN UrlsOf(c.out.val) ELSE {}

\* the run is about to insert a row whose key another run has committed
MeetsEntry(p) ==
    /\ conn[p].pc = "insert"
    /\ SelectSeen(store, _hash_url(conn[p].jobs[conn[p].i].url)) # {}

\* C28: when two runs execute filter_new on one store with their lookups
\* and inserts interleaved, no purge_old between them, a URL their inputs
\* share is returned as new by at most one of them; the run whose insert
\* meets the other's entry fails on the primary key (unless it is
\* interrupted first) and returns no list.
C28_SharedUrlNewAtMostOnce ==
    [][/\ (\A p \in Runs : conn'[p].pc # "purged") =>
             ReturnedNew(conn'[1]) \cap ReturnedNew(conn'[2]) = {}
       /\ \A p \in Runs :
             MeetsEntry(p) /\ conn'[p].pc # "insert" =>
                /\ conn'[p].pc = "failed"
                /\ conn'[p].out \in {Raises("IntegrityError"),
                                     Raises("KeyboardInterrupt")}]_vars

\* both runs found the URL absent; one inserted it, committed and returned
\* it as new, the other failed on the primary key
C28_Witness ==
    \E p, q \in Runs :
        /\ conn[q].out = Raises("IntegrityError")
        /\ conn[p].pc = "filtered"
        /\ conn[q].jobs[conn[q].i].url \in ReturnedNew(conn[p])

-----------------------------------------------------------------------------
(* The report: C26 *)

RECURSIVE Rows(_)
\* the rows of the report, section after section
Rows(sections) ==
    IF sections = <<>> THEN <<>> ELSE Head(sections).rows \o Rows(Tail(sections))

\* in how many sections the posting appears
SectionsWith(sections, job) ==
    Cardinality({k \in 1..Len(sections) :
                    \E i \in 1..Len(sections[k].rows) : sections[k].rows[i] = job})

\* the posting stands in exactly one section: that of its matched role, or
\* Other when it has none
InItsSection(sections, job) ==
    /\ SectionsWith(sections, job) = 1
    /\ \E k \in 1..Len(sections) :
          /\ \E i \in 1..Len(sections[k].rows) : sections[k].rows[i] = job
          /\ sections[k].role =
                 IF job.matched_role = <<>> THEN <<"Other">> ELSE job.matched_role

\* C26: every posting passed to the report builder appears in exactly one
\* section, under its matched role or under Other when it has none, and
\* the report has as many rows as its Total Jobs count says, for the
\* reports of a scrape run and for those of combine_reports.
C26_EveryPostingInOneSection ==
    probe.fn = "build_html_grouped" =>
        /\ \A i \in 1..Len(probe.jobs) : InItsSection(probe.out.sections, probe.jobs[i])
        /\ Len(Rows(probe.out.sections)) = probe.out.total

\* the same of the reports save_to_file builds in a scrape run
C26_RunReportComplete ==
    probe.fn = "build_html_grouped" /\ probe.by = "save_to_file" =>
        /\ \A i \in 1..Len(probe.jobs) : InItsSection(probe.out.sections, probe.jobs[i])
        /\ Len(Rows(probe.out.sections)) = probe.out.total

-----------------------------------------------------------------------------
(* The order of a run: C29 *)

\* the URL has a row in the table
Stored(rows, url) == \E r \in rows : r.url = url

\* C29: within one run the new postings are committed to the store before
\* the output is written and before the email is attempted, and the output
\* is written before the email; so a posting recorded by a run, one that
\* failed while writing its output included, is not returned as new by a
\* later run while its entry is in the store.
C29_StoredBeforeOutputBeforeEmail ==
    [][/\ run'.phase \in {"saved", "raised"} /\ run.phase = "deduped" =>
             AllStored(store, UrlsOf(run.new_jobs))
       /\ run'.phase = "saved" => run.phase \in {"deduped", "saved"}
       /\ run'.email # run.email /\ run'.phase # "called" =>
             /\ run.phase = "saved"
             /\ AllStored(store, UrlsOf(run.new_jobs))
       /\ run.phase = "sources" /\ run'.phase = "deduped" =>
             \A url \in UrlsOf(run.all_jobs) :
                 Stored(store, url) => url \notin UrlsOf(run'.new_jobs)]_vars

\* every run before this one raised outside the scheduler, so the entries of
\* the store are those of runs that failed after deduplication; this run has
\* met one of their postings again and not returned it
C29_Witness ==
    /\ run.phase = "deduped"
    /\ run.n >= 2
    /\ ~run.sched
    /\ \E url \in UrlsOf(run.all_jobs) :
          /\ Stored(store, url)
          /\ url \notin UrlsOf(run.new_jobs)

-----------------------------------------------------------------------------
(* An entry purged and its URL met again: C30 *)

\* C30: once purge_old has deleted the entry of a URL, the next filter_new
\* whose input contains that URL returns the posting as new again and
\* records a fresh entry whose first_seen is the instant of that call; a
\* URL whose entry was not purged is never returned as new again, and its
\* entry stays as it is. (Entries leave the store by purge_old only.)
C30_PurgedUrlNewAgain ==
    [][/\ FilterNewStep =>
            \A url \in UrlsOf(call'.jobs) :
                IF url \in SeenUrls(store)
                THEN /\ url \notin UrlsOf(call'.result)
                     /\ {r \in store' : r.url = url} = {r \in store : r.url = url}
                ELSE /\ url \in UrlsOf(call'.result)
                     /\ \E r \in store' : /\ r.url = url
                                          /\ InstantOf(r.first_seen) = clock
       /\ SeenUrls(store) \subseteq SeenUrls(store') \/ PurgeOldStep]_vars

\* the entry the store began with is gone, and a later filter_new has
\* returned its URL as new and recorded it with the first_seen of that call
C30_Witness ==
    /\ call.op = "filter_new"
    /\ J1.url \in UrlsOf(call.result)
    /\ AgedStore \cap store = {}
    /\ \E r \in store : /\ r.url = J1.url
                        /\ InstantOf(r.first_seen) = clock
                        /\ clock > Epoch0

=============================================================================
